---- MODULE Spec2Model ----
(***************************************************************************)
(* The scheduler of the Rise of Kingdoms bot: BotCore.start / stop /       *)
(* pause / resume, the control loop BotCore._run_bot_loop, the dispatch    *)
(* BotCore._execute_task, the statistics of SessionLogger and the session  *)
(* clock of SessionRandomizer.                                             *)
(*                                                                         *)
(* Every BotGUI.start_bot creates a fresh BotThread that calls             *)
(* BotCore.start; Threads are the thread objects that can be alive at the  *)
(* same time.  Each thread walks through the control loop with a program   *)
(* counter pc[t]; the command thread (the GUI) acts through Start, Stop,   *)
(* Pause, Resume and SetTaskEnabled.                                       *)
(*                                                                         *)
(* Time is discrete: one clock tick is TickSeconds seconds, sleeps shorter *)
(* than a tick may or may not carry the clock over a tick boundary.        *)
(***************************************************************************)
EXTENDS Integers, Sequences, FiniteSets, TLC

\* ------------------------------------------------------------------ bounds
MaxActions == 1       \* no task is dispatched once total_actions reached it
MaxErrors  == 1       \* no fault is injected once this many errors are logged
MaxClock   == 3       \* the clock saturates at this many ticks
MaxCommands == 2     \* stop, pause, resume and set_task_enabled requests that are made
MaxTasks == 4        \* longest list handed to randomize_task_order on its own
MaxActionCount == 101  \* wait_human is not called once action_count reached it
MaxHumanClock == 5     \* the clock of the HumanBehavior saturates at this many ticks
MaxCoordinate == 3     \* the small coordinates drawn run from 0 to this one
MaxIterations == 51    \* the tutorial loop is followed for this many passes
MaxTaps == 2           \* find_and_tap is followed until it has sent this many taps
MaxCaptures == 3       \* and until the device has delivered this many screenshots
MaxChecks == 3         \* connect_device is followed for this many license checks

\* ------------------------------------------------------- program constants
SessionDurationMin   == 1800   \* random.uniform(1800, 7200)
SessionDurationMax   == 7200
min_session_duration == 1200
ActionsBeforeBreakMin == 50    \* random.randint(50, 100)
ActionsBeforeBreakMax == 100
SpontaneousBreakFloor == 30    \* self.action_count > 30
min_action_delay     == 300    \* 0.3 s, in milliseconds
max_action_delay     == 1500   \* 1.5 s, in milliseconds
MaxFatigue           == 2000   \* min(2.0, ..), in thousandths
FatigueSeconds       == 3600   \* session_duration / 3600
max_steps            == 50     \* NewPlayerTutorialTask: max_steps = 50
base_width           == 1920   \* CoordinateMapper(base_width=1920, base_height=1080)
base_height          == 1080
NextSessionDelayMin  == 600    \* random.uniform(600, 7200)
NextSessionDelayMax  == 7200
PausePollSeconds     == 1      \* time.sleep(1)
CooldownSeconds      == 30     \* time.sleep(30)
CycleDelayMin        == 60     \* random.uniform(60, 180)
CycleDelayMax        == 180
BreakDurationMin     == 30     \* break_duration_range = (30, 120)
BreakDurationMax     == 120

TickSeconds == NextSessionDelayMin

ThreadOrder == <<"T1", "T2">>
Threads == {ThreadOrder[i] : i \in 1..Len(ThreadOrder)}

\* the task types of enabled_tasks that are modelled, in dictionary order
TaskOrder == <<"gather_resources", "explore_fog">>
TaskTypes == {TaskOrder[i] : i \in 1..Len(TaskOrder)}

None == "none"

VARIABLES
    running, paused, current_task, enabled_tasks,          \* BotCore
    total_actions, successful_actions, failed_actions,     \* BotStatistics
    errors,                                                \* len(stats.errors)
    stats_file,                                            \* total_actions last saved by close()
    session_start, session_duration, now,                  \* SessionRandomizer and the clock
    pc,             \* position of each thread
    tasks,          \* the part of the cycle's task list not yet iterated (head = task_type)
    outcome,        \* what the dispatch of the current task produced
    logged,         \* the success flags passed to log_action by the current task execution
    sleep_s,        \* seconds requested by the sleep in progress (0: a humanized wait)
    session_end,    \* should_end_session() returned true in the current cycle
    pause_pending,  \* pause() was called while the thread was in the loop, no resume() since
    begun_since_pause,  \* task executions the thread began since that pause(), counted up to 2
    commands,       \* stop, pause, resume and set_task_enabled requests made so far
    unseen          \* the thread has not read the flags since the last pause() or stop()

VARIABLES
    call,           \* the task whose execute() is in progress (None: no call in progress)
    step,           \* the template the call looks for next, or the position it has reached
    tapped,         \* the templates tapped by the call, in order
    returned,       \* what execute() returned (None until it returns)
    events,         \* SessionLogger events recorded by the call, per kind
    count,          \* the loop counter of the call (help_count, quests_collected, ...)
    attack_count,   \* BarbarianAttackTask.attack_count
    attempts,       \* calls of _attack_barbarian made by the call
    resource_type,  \* ResourceGatheringTask.resource_type
    missed,         \* a step of the call other than the optional speed-up found no template
    io_failed,      \* a screenshot capture or a tap dispatch of the call failed
    break_checks,   \* should_take_break() calls made by the call
    task_type,      \* the TaskType handed to _create_task_instance
    task_instance   \* the class of the task _create_task_instance returned

VARIABLES
    image,          \* the screenshot, template and threshold handed to the processor,
                    \* with the functions called on them so far
    found,          \* what the last find_template returned
    regions,        \* what the last find_all_templates returned
    image_raised    \* an exception left find_template or find_all_templates

VARIABLES
    shuffle_pc,     \* where the call of randomize_task_order stands
    shuffle_tasks,  \* the caller's list, handed to randomize_task_order
    tasks_copy      \* the list randomize_task_order returned

VARIABLES
    action_count,           \* HumanBehavior.action_count
    actions_before_break,   \* HumanBehavior.actions_before_break
    fatigue_factor,         \* HumanBehavior.fatigue_factor, in thousandths
    human_now,              \* time.time() - session_start of the HumanBehavior, in ticks
    human_op,               \* the method of HumanBehavior called last
    break_due,              \* what the last should_take_break() returned
    delay,                  \* what the last human_delay() returned, in milliseconds
    since_break             \* wait_human calls since the last take_break, -1 before the first

VARIABLES
    current_width,      \* CoordinateMapper.current_width
    current_height,     \* CoordinateMapper.current_height
    requested,          \* the resolution last given to set_current_resolution,
                        \* the base resolution before the first call
    mapper_op,          \* the method of CoordinateMapper called last
    args,               \* the arguments of the last scaling call
    scaled              \* what the last scaling call returned

VARIABLES
    cycle_pc            \* where each thread stands in the for-loop of the cycle, as far
                        \* as the HumanBehavior is concerned

VARIABLES
    tap_pc,             \* where the call of find_and_tap stands
    captures,           \* the number of screenshots the device has delivered so far
    screenshot,         \* the local `screenshot`: which capture it is, 0 when unbound
    result,             \* the local `result`: <<x, y, width, height>>, <<>> when unbound
    taps,               \* the number of taps sent to the device so far
    tap_x, tap_y,       \* the coordinates of the last tap sent
    tap_shot,           \* the capture the last tap was computed from, 0 before the first
    captures_at_tap     \* the value of captures when the last tap was sent

VARIABLES
    connect_btn,        \* BotGUI.connect_btn is enabled
    start_btn,          \* BotGUI.start_btn is enabled
    stop_btn,           \* BotGUI.stop_btn is enabled
    adb_thread,         \* the ADBConnectionThread at work ("none": none)
    bot_threads,        \* the BotThreads started whose run() has not begun
    checks,             \* the number of calls of check_license so far
    license_ok,         \* what the last check_license returned
    licensed,           \* some check_license has returned True
    checks_at_start     \* the value of checks when running last became true

loopVars == <<running, paused, current_task, enabled_tasks,
              total_actions, successful_actions, failed_actions, errors, stats_file,
              session_start, session_duration, now,
              pc, tasks, outcome, logged, sleep_s, session_end,
              pause_pending, begun_since_pause, commands, unseen>>

taskVars  == <<call, step, tapped, returned, events, count, attack_count, attempts,
               resource_type, missed, io_failed, break_checks, task_type, task_instance>>
imageVars == <<image, found, regions, image_raised>>
randVars  == <<shuffle_pc, shuffle_tasks, tasks_copy>>
humanVars == <<action_count, actions_before_break, fatigue_factor, human_now,
               human_op, break_due, delay, since_break>>
mapperVars == <<current_width, current_height, requested, mapper_op, args, scaled>>
cycleVars == <<cycle_pc>>
tapVars   == <<tap_pc, captures, screenshot, result, taps, tap_x, tap_y, tap_shot, captures_at_tap>>
guiVars   == <<connect_btn, start_btn, stop_btn, adb_thread, bot_threads,
               checks, license_ok, licensed, checks_at_start>>
utilVars  == <<randVars, humanVars, mapperVars, cycleVars, tapVars, guiVars>>

\* the state of the components the control loop does not touch between two calls
callVars  == <<taskVars, imageVars, utilVars>>

vars == <<loopVars, taskVars, imageVars, utilVars>>

botVars     == <<running, paused>>
statVars    == <<total_actions, successful_actions, failed_actions>>
sessionVars == <<session_start, session_duration>>
pauseVars   == <<pause_pending, begun_since_pause>>
localVars   == <<tasks, outcome, logged, session_end>>

\* ------------------------------------------------------------------ helpers
Min(a, b) == IF a < b THEN a ELSE b

\* durations drawn by the random.uniform calls: the two ends of each range
SessionDurations  == {d \in {SessionDurationMin, SessionDurationMin + TickSeconds,
                             SessionDurationMax} : d <= MaxClock * TickSeconds}
NextSessionDelays == {NextSessionDelayMin, NextSessionDelayMax}
\* variant: the next cycle follows at once
CycleDelays_None  == {0}

CycleDelays       == {CycleDelayMin, CycleDelayMax}
BreakDurations    == {BreakDurationMin, BreakDurationMax}

\* positions of the loop
ExecPcs  == {"create", "execute", "inner_log", "inner_log_flag",
             "log_action", "log_action_flag", "task_except", "task_end"}
SleepPcs == {"pause_sleep", "session_sleep", "cycle_sleep", "break_sleep",
             "wait_human", "cooldown"}
LongSleepPcs == {"session_sleep", "cycle_sleep", "break_sleep"}
\* inside the try of _run_bot_loop, outside the try of _execute_task
BodyPcs  == {"check_pause", "pause_sleep", "session_check", "session_sleep",
             "get_tasks", "for", "execute_task", "wait_human", "break_check",
             "break_sleep", "cycle_sleep"}
LoopPcs  == BodyPcs \cup ExecPcs \cup {"while", "except", "cooldown"}
AllPcs   == LoopPcs \cup {"idle"}

\* the clock after a sleep of s seconds; c is the carry over a tick boundary
Elapse(s, c) == Min(MaxClock, now + (s \div TickSeconds) + c)

\* variant: the early end is drawn from the floor on, not after it
should_end_session_AtFloor(early) ==
    LET elapsed == (now - session_start) * TickSeconds
    IN  \/ elapsed >= session_duration
        \/ elapsed >= min_session_duration /\ early

\* SessionRandomizer.should_end_session; early is the 5% draw
should_end_session(early) ==
    LET elapsed == (now - session_start) * TickSeconds
    IN  \/ elapsed >= session_duration
        \/ elapsed > min_session_duration /\ early

\* variant: the task list holds every task type, whatever its flag
get_enabled_tasks_All == TaskOrder

\* BotCore._get_enabled_tasks
RECURSIVE SelectEnabled(_, _)
SelectEnabled(order, en) ==
    IF order = <<>> THEN <<>>
    ELSE (IF en[Head(order)] THEN <<Head(order)>> ELSE <<>>) \o SelectEnabled(Tail(order), en)

get_enabled_tasks == SelectEnabled(TaskOrder, enabled_tasks)

\* variant: every position is drawn from the list independently of the others
randomize_task_order_Sample(s) == [1..Len(s) -> {s[i] : i \in 1..Len(s)}]

\* SessionRandomizer.randomize_task_order: the orders random.shuffle can produce
randomize_task_order(s) ==
    LET shuffles == {p \in [1..Len(s) -> 1..Len(s)] :
                        \A i, j \in 1..Len(s) : i # j => p[i] # p[j]}
    IN  {[i \in 1..Len(s) |-> s[p[i]]] : p \in shuffles}

\* BotCore._create_task_instance: the task types it has a constructor for
HasConstructor(task) ==
    task \in {"gather_resources", "train_troops", "upgrade_buildings", "research_tech",
              "attack_barbarians", "heal_troops", "alliance_help", "collect_chests",
              "daily_quests", "new_player_tutorial", "explore_fog", "gather_gems"}

\* What execute() of a task does, seen from _execute_task: the value it
\* returns, whether it calls log_action(.., True) itself, and whether it
\* catches an exception of its own (log_error, return False).
Out(r, i, e) == [ret |-> r, inner |-> i, err |-> e]

ExecuteOutcomes(task) ==
    CASE task = "gather_resources" ->
            {Out(TRUE, FALSE, FALSE), Out(FALSE, FALSE, FALSE), Out(FALSE, FALSE, TRUE)}
      [] task = "heal_troops" ->
            {Out(TRUE, TRUE, FALSE), Out(TRUE, FALSE, FALSE), Out(FALSE, FALSE, FALSE),
             Out(FALSE, FALSE, TRUE)}
      [] task = "explore_fog" ->
            {Out(FALSE, FALSE, FALSE), Out(TRUE, TRUE, FALSE), Out(FALSE, TRUE, FALSE),
             Out(FALSE, FALSE, TRUE)}
      [] OTHER -> {Out(TRUE, FALSE, FALSE), Out(FALSE, FALSE, FALSE)}

\* ---------------------------------------------------------------- initial
\* the counters of SessionLogger a task call can advance
EventKinds == {"actions", "troops_trained", "buildings_upgraded", "researches_started",
               "barbarians_killed", "gathering_trips", "alliance_helps",
               "chests_collected", "daily_quests_completed"}

\* no task call and no image call in progress
TaskIdle ==
    /\ call = None
    /\ step = None
    /\ tapped = <<>>
    /\ returned = None
    /\ events = [e \in EventKinds |-> 0]
    /\ count = 0
    /\ attack_count = 0
    /\ attempts = 0
    /\ resource_type = None
    /\ missed = FALSE
    /\ io_failed = FALSE
    /\ break_checks = 0
    /\ task_type = None
    /\ task_instance = None

\* find_template returning None
NotFound == <<>>

\* no screenshot has been handed to the processor
NoImage == [asset |-> "none", w |-> 0, h |-> 0, surface |-> <<>>, threshold |-> 0,
            called |-> {}]

ImageIdle ==
    /\ image = NoImage
    /\ found = NotFound
    /\ regions = <<>>
    /\ image_raised = FALSE

\* random.randint(50, 100), drawn at its ends
ActionsBeforeBreak == {ActionsBeforeBreakMin, ActionsBeforeBreakMax}

\* randomize_task_order has not been called
RandIdle ==
    /\ shuffle_pc = "idle"
    /\ shuffle_tasks = <<>>
    /\ tasks_copy = <<>>

\* no HumanBehavior has been constructed
HumanIdle ==
    /\ action_count = 0
    /\ actions_before_break = ActionsBeforeBreakMin
    /\ fatigue_factor = 0
    /\ human_now = 0
    /\ human_op = "none"
    /\ break_due = FALSE
    /\ delay = 0
    /\ since_break = -1

\* CoordinateMapper(): base and current resolution 1920 x 1080
MapperInit ==
    /\ current_width = base_width
    /\ current_height = base_height
    /\ requested = <<base_width, base_height>>
    /\ mapper_op = "__init__"
    /\ args = <<>>
    /\ scaled = <<>>

\* no thread is in the for-loop
CycleIdle == cycle_pc = [t \in Threads |-> "idle"]

\* find_and_tap has not been called
TapIdle ==
    /\ tap_pc = "idle"
    /\ captures = 0
    /\ screenshot = 0
    /\ result = <<>>
    /\ taps = 0
    /\ tap_x = 0
    /\ tap_y = 0
    /\ tap_shot = 0
    /\ captures_at_tap = 0

\* BotGUI.__init__: the three buttons are disabled, nothing has been checked
GuiIdle ==
    /\ connect_btn = FALSE
    /\ start_btn = FALSE
    /\ stop_btn = FALSE
    /\ adb_thread = "none"
    /\ bot_threads = 0
    /\ checks = 0
    /\ license_ok = FALSE
    /\ licensed = FALSE
    /\ checks_at_start = 0

UtilIdle == RandIdle /\ HumanIdle /\ MapperInit /\ CycleIdle /\ TapIdle /\ GuiIdle

Init ==
    /\ running = FALSE
    /\ paused = FALSE
    /\ current_task = None
    /\ enabled_tasks = [k \in TaskTypes |-> k # "explore_fog"]
    /\ total_actions = 0
    /\ successful_actions = 0
    /\ failed_actions = 0
    /\ errors = 0
    /\ stats_file = -1
    /\ session_start = 0
    /\ session_duration \in SessionDurations
    /\ now = 0
    /\ pc = [t \in Threads |-> "idle"]
    /\ tasks = [t \in Threads |-> <<>>]
    /\ outcome = [t \in Threads |-> None]
    /\ logged = [t \in Threads |-> <<>>]
    /\ sleep_s = [t \in Threads |-> 0]
    /\ session_end = [t \in Threads |-> FALSE]
    /\ pause_pending = [t \in Threads |-> FALSE]
    /\ begun_since_pause = [t \in Threads |-> 0]
    /\ commands = 0
    /\ unseen = [t \in Threads |-> FALSE]
    /\ TaskIdle
    /\ ImageIdle
    /\ UtilIdle

\* ------------------------------------------------- the command thread (GUI)
\* one more request of the command thread
Requested == commands < MaxCommands /\ commands' = commands + 1

\* a fresh thread takes the first free thread object
ThreadIndex(t) == CHOOSE i \in 1..Len(ThreadOrder) : ThreadOrder[i] = t

\* BotThread.run -> BotCore.start on a fresh thread
Start(t) ==
    /\ pc[t] = "idle"
    /\ \A u \in Threads : pc[u] = "idle" => ThreadIndex(t) <= ThreadIndex(u)
    /\ IF ~running
          THEN /\ running' = TRUE
               /\ paused' = FALSE
               /\ pc' = [pc EXCEPT ![t] = "while"]
          ELSE UNCHANGED <<running, paused, pc>>
    /\ UNCHANGED <<commands, unseen, current_task, enabled_tasks, statVars, errors, stats_file,
                   sessionVars, callVars, now, localVars, sleep_s, pauseVars>>

\* BotCore.stop, with SessionLogger.close -> save_statistics
Stop ==
    /\ Requested
    /\ running' = FALSE
    /\ stats_file' = total_actions
    /\ unseen' = [t \in Threads |-> pc[t] # "idle"]
    /\ UNCHANGED <<paused, current_task, enabled_tasks, statVars, errors,
                   sessionVars, callVars, now, pc, localVars, sleep_s, pauseVars>>

\* BotCore.pause
Pause ==
    /\ Requested
    /\ paused' = TRUE
    /\ pause_pending' = [t \in Threads |-> pause_pending[t] \/ pc[t] # "idle"]
    /\ begun_since_pause' = [t \in Threads |-> IF pause_pending[t] THEN begun_since_pause[t]
                                                                   ELSE 0]
    /\ unseen' = [t \in Threads |-> pc[t] # "idle"]
    /\ UNCHANGED <<running, current_task, enabled_tasks, statVars, errors, stats_file,
                   sessionVars, callVars, now, pc, localVars, sleep_s>>

\* BotCore.resume
Resume ==
    /\ Requested
    /\ paused' = FALSE
    /\ pause_pending' = [t \in Threads |-> FALSE]
    /\ begun_since_pause' = [t \in Threads |-> 0]
    /\ UNCHANGED <<unseen, running, current_task, enabled_tasks, statVars, errors, stats_file,
                   sessionVars, callVars, now, pc, localVars, sleep_s>>

\* BotCore.set_task_enabled
SetTaskEnabled(task, enabled) ==
    /\ enabled_tasks[task] # enabled
    /\ Requested
    /\ enabled_tasks' = [enabled_tasks EXCEPT ![task] = enabled]
    /\ UNCHANGED <<unseen, botVars, current_task, statVars, errors, stats_file,
                   sessionVars, callVars, now, pc, localVars, sleep_s, pauseVars>>

\* --------------------------------------------------- BotCore._run_bot_loop
globalsKept == <<botVars, current_task, enabled_tasks, statVars, errors, stats_file,
                 sessionVars, callVars, pauseVars, commands>>

\* the thread reads running or paused
Seen(t) == unseen' = [unseen EXCEPT ![t] = FALSE]

\* while self.running: the locals of the previous cycle are dead
While(t) ==
    /\ pc[t] = "while"
    /\ IF running
          THEN /\ pc' = [pc EXCEPT ![t] = "check_pause"]
               /\ UNCHANGED pauseVars
          ELSE /\ pc' = [pc EXCEPT ![t] = "idle"]
               /\ pause_pending' = [pause_pending EXCEPT ![t] = FALSE]
               /\ begun_since_pause' = [begun_since_pause EXCEPT ![t] = 0]
    /\ session_end' = [session_end EXCEPT ![t] = FALSE]
    /\ tasks' = [tasks EXCEPT ![t] = <<>>]
    /\ outcome' = [outcome EXCEPT ![t] = None]
    /\ logged' = [logged EXCEPT ![t] = <<>>]
    /\ Seen(t)
    /\ UNCHANGED <<botVars, current_task, enabled_tasks, statVars, errors, stats_file,
                   sessionVars, callVars, commands, now, sleep_s>>

\* if self.paused: time.sleep(1)
CheckPause(t) ==
    /\ pc[t] = "check_pause"
    /\ IF paused
          THEN /\ pc' = [pc EXCEPT ![t] = "pause_sleep"]
               /\ sleep_s' = [sleep_s EXCEPT ![t] = PausePollSeconds]
          ELSE /\ pc' = [pc EXCEPT ![t] = "session_check"]
               /\ UNCHANGED sleep_s
    /\ Seen(t)
    /\ UNCHANGED <<globalsKept, now, localVars>>

\* variant: the poll goes back to the pause test without "while self.running"
PausePoll_NoRecheck(t) ==
    /\ pc[t] = "pause_sleep"
    /\ \E c \in {0, 1} : now' = Elapse(sleep_s[t], c)
    /\ pc' = [pc EXCEPT ![t] = "check_pause"]
    /\ sleep_s' = [sleep_s EXCEPT ![t] = 0]
    /\ UNCHANGED <<globalsKept, unseen, localVars>>

\* the 1 s poll is over: continue
PausePoll(t) ==
    /\ pc[t] = "pause_sleep"
    /\ \E c \in {0, 1} : now' = Elapse(sleep_s[t], c)
    /\ pc' = [pc EXCEPT ![t] = "while"]
    /\ sleep_s' = [sleep_s EXCEPT ![t] = 0]
    /\ UNCHANGED <<globalsKept, unseen, localVars>>

\* variant: the session end is logged but the cycle goes on without the sleep
SessionCheck_NoContinue(t) ==
    /\ pc[t] = "session_check"
    /\ \E early \in BOOLEAN :
          session_end' = [session_end EXCEPT ![t] = should_end_session(early)]
    /\ pc' = [pc EXCEPT ![t] = "get_tasks"]
    /\ UNCHANGED <<globalsKept, unseen, now, tasks, outcome, logged, sleep_s>>

\* if self.session_randomizer.should_end_session(): delay_seconds = get_next_session_delay()
SessionCheck(t) ==
    /\ pc[t] = "session_check"
    /\ \E early \in BOOLEAN :
          IF should_end_session(early)
             THEN /\ \E d \in NextSessionDelays : sleep_s' = [sleep_s EXCEPT ![t] = d]
                  /\ pc' = [pc EXCEPT ![t] = "session_sleep"]
                  /\ session_end' = [session_end EXCEPT ![t] = TRUE]
             ELSE /\ pc' = [pc EXCEPT ![t] = "get_tasks"]
                  /\ UNCHANGED <<sleep_s, session_end>>
    /\ UNCHANGED <<globalsKept, unseen, now, tasks, outcome, logged>>

\* time.sleep(delay_seconds) is over: continue
SessionSleep(t) ==
    /\ pc[t] = "session_sleep"
    /\ \E c \in {0, 1} : now' = Elapse(sleep_s[t], c)
    /\ pc' = [pc EXCEPT ![t] = "while"]
    /\ sleep_s' = [sleep_s EXCEPT ![t] = 0]
    /\ UNCHANGED <<globalsKept, unseen, localVars>>

\* tasks = randomize_task_order(_get_enabled_tasks())
GetTasks(t) ==
    /\ pc[t] = "get_tasks"
    /\ \E order \in randomize_task_order(get_enabled_tasks) :
          tasks' = [tasks EXCEPT ![t] = order]
    /\ pc' = [pc EXCEPT ![t] = "for"]
    /\ UNCHANGED <<globalsKept, unseen, now, outcome, logged, sleep_s, session_end>>

\* for task_type in tasks: the checkpoint, the random skip, or the end of the
\* pass with cycle_delay = random.uniform(60, 180)
ForStep(t) ==
    /\ pc[t] = "for"
    /\ IF tasks[t] = <<>> \/ ~running \/ paused
          THEN /\ \E d \in CycleDelays : sleep_s' = [sleep_s EXCEPT ![t] = d]
               /\ pc' = [pc EXCEPT ![t] = "cycle_sleep"]
               /\ tasks' = [tasks EXCEPT ![t] = <<>>]
          ELSE /\ \E skip \in BOOLEAN :
                    /\ skip \/ total_actions < MaxActions
                    /\ IF skip
                          THEN /\ tasks' = [tasks EXCEPT ![t] = Tail(tasks[t])]
                               /\ UNCHANGED pc
                          ELSE /\ pc' = [pc EXCEPT ![t] = "execute_task"]
                               /\ UNCHANGED tasks
               /\ UNCHANGED sleep_s
    /\ IF tasks[t] = <<>> THEN UNCHANGED unseen ELSE Seen(t)
    /\ UNCHANGED <<globalsKept, now, outcome, logged, session_end>>

\* time.sleep(cycle_delay) is over
CycleSleep(t) ==
    /\ pc[t] = "cycle_sleep"
    /\ \E c \in {0, 1} : now' = Elapse(sleep_s[t], c)
    /\ pc' = [pc EXCEPT ![t] = "while"]
    /\ sleep_s' = [sleep_s EXCEPT ![t] = 0]
    /\ UNCHANGED <<globalsKept, unseen, localVars>>

\* --------------------------------------------------- BotCore._execute_task
\* self.current_task = task_type
ExecuteTask(t) ==
    /\ pc[t] = "execute_task"
    /\ current_task' = Head(tasks[t])
    /\ outcome' = [outcome EXCEPT ![t] = None]
    /\ logged' = [logged EXCEPT ![t] = <<>>]
    /\ begun_since_pause' = IF pause_pending[t]
                               THEN [begun_since_pause EXCEPT ![t] = Min(2, @ + 1)]
                               ELSE begun_since_pause
    /\ pc' = [pc EXCEPT ![t] = "create"]
    /\ UNCHANGED <<unseen, botVars, enabled_tasks, statVars, errors, stats_file, sessionVars, callVars,
                   now, tasks, sleep_s, session_end, pause_pending, commands>>

\* task_instance = self._create_task_instance(task_type)
CreateTaskInstance(t) ==
    /\ pc[t] = "create"
    /\ IF HasConstructor(Head(tasks[t]))
          THEN /\ pc' = [pc EXCEPT ![t] = "execute"]
               /\ UNCHANGED outcome
          ELSE /\ pc' = [pc EXCEPT ![t] = "task_end"]
               /\ outcome' = [outcome EXCEPT ![t] = "no_instance"]
    /\ UNCHANGED <<globalsKept, unseen, now, tasks, logged, sleep_s, session_end>>

\* success = task_instance.execute()
Execute(t) ==
    /\ pc[t] = "execute"
    /\ \E o \in ExecuteOutcomes(Head(tasks[t])) :
          /\ o.err => errors < MaxErrors
          /\ errors' = IF o.err THEN errors + 1 ELSE errors
          /\ outcome' = [outcome EXCEPT ![t] = IF o.ret THEN "true" ELSE "false"]
          /\ pc' = [pc EXCEPT ![t] = IF o.inner THEN "inner_log" ELSE "log_action"]
    /\ \E c \in {0, 1} : now' = Elapse(0, c)
    /\ UNCHANGED <<unseen, botVars, current_task, enabled_tasks, statVars, stats_file,
                   sessionVars, callVars, pauseVars, commands, tasks, logged, sleep_s, session_end>>

\* SessionLogger.log_action called by the task itself: total_actions += 1
InnerLogAction(t) ==
    /\ pc[t] = "inner_log"
    /\ total_actions' = total_actions + 1
    /\ logged' = [logged EXCEPT ![t] = Append(logged[t], TRUE)]
    /\ pc' = [pc EXCEPT ![t] = "inner_log_flag"]
    /\ UNCHANGED <<unseen, botVars, current_task, enabled_tasks, successful_actions, failed_actions,
                   errors, stats_file, sessionVars, callVars, pauseVars, commands, now, tasks, outcome,
                   sleep_s, session_end>>

\* ... successful_actions += 1
InnerLogFlag(t) ==
    /\ pc[t] = "inner_log_flag"
    /\ successful_actions' = successful_actions + 1
    /\ pc' = [pc EXCEPT ![t] = "log_action"]
    /\ UNCHANGED <<unseen, botVars, current_task, enabled_tasks, total_actions, failed_actions,
                   errors, stats_file, sessionVars, callVars, pauseVars, commands, now, localVars, sleep_s>>

\* self.logger.log_action(task_type.value, success, ..): total_actions += 1
LogAction(t) ==
    /\ pc[t] = "log_action"
    /\ total_actions' = total_actions + 1
    /\ logged' = [logged EXCEPT ![t] = Append(logged[t], outcome[t] = "true")]
    /\ pc' = [pc EXCEPT ![t] = "log_action_flag"]
    /\ UNCHANGED <<unseen, botVars, current_task, enabled_tasks, successful_actions, failed_actions,
                   errors, stats_file, sessionVars, callVars, pauseVars, commands, now, tasks, outcome,
                   sleep_s, session_end>>

\* ... successful_actions += 1 or failed_actions += 1
LogActionFlag(t) ==
    /\ pc[t] = "log_action_flag"
    /\ IF outcome[t] = "true"
          THEN /\ successful_actions' = successful_actions + 1
               /\ UNCHANGED failed_actions
          ELSE /\ failed_actions' = failed_actions + 1
               /\ UNCHANGED successful_actions
    /\ pc' = [pc EXCEPT ![t] = "task_end"]
    /\ UNCHANGED <<unseen, botVars, current_task, enabled_tasks, total_actions,
                   errors, stats_file, sessionVars, callVars, pauseVars, commands, now, localVars, sleep_s>>

\* self.current_task = None; back in the loop: self.humanizer.wait_human(..)
TaskEnd(t) ==
    /\ pc[t] = "task_end"
    /\ current_task' = None
    /\ pc' = [pc EXCEPT ![t] = "wait_human"]
    /\ UNCHANGED <<unseen, botVars, enabled_tasks, statVars, errors, stats_file, sessionVars, callVars,
                   pauseVars, commands, now, localVars, sleep_s>>

\* an exception raised by _create_task_instance or by execute()
TaskRaise(t) ==
    /\ pc[t] \in {"create", "execute"}
    /\ errors < MaxErrors
    /\ outcome' = [outcome EXCEPT ![t] = "raised"]
    /\ pc' = [pc EXCEPT ![t] = "task_except"]
    /\ UNCHANGED <<globalsKept, unseen, now, tasks, logged, sleep_s, session_end>>

\* variant: _execute_task without its handler, the exception reaches the loop
TaskExcept_Reraise(t) ==
    /\ pc[t] = "task_except"
    /\ pc' = [pc EXCEPT ![t] = "except"]
    /\ sleep_s' = [sleep_s EXCEPT ![t] = 0]
    /\ UNCHANGED <<globalsKept, unseen, now, localVars>>

\* variant: the handler of _execute_task logs the error and leaves current_task set
TaskExcept_KeepsTask(t) ==
    /\ pc[t] = "task_except"
    /\ errors' = errors + 1
    /\ pc' = [pc EXCEPT ![t] = "wait_human"]
    /\ UNCHANGED <<unseen, botVars, current_task, enabled_tasks, statVars, stats_file, sessionVars,
                   callVars, pauseVars, commands, now, localVars, sleep_s>>

\* except Exception as e: log_error(..); self.current_task = None
TaskExcept(t) ==
    /\ pc[t] = "task_except"
    /\ errors' = errors + 1
    /\ current_task' = None
    /\ pc' = [pc EXCEPT ![t] = "wait_human"]
    /\ UNCHANGED <<unseen, botVars, enabled_tasks, statVars, stats_file, sessionVars, callVars,
                   pauseVars, commands, now, localVars, sleep_s>>

\* ------------------------------------------- after the task, in the loop
\* wait_human(random.uniform(5, 15)) is over
WaitHuman(t) ==
    /\ pc[t] = "wait_human"
    /\ \E c \in {0, 1} : now' = Elapse(0, c)
    /\ pc' = [pc EXCEPT ![t] = "break_check"]
    /\ outcome' = [outcome EXCEPT ![t] = None]
    /\ logged' = [logged EXCEPT ![t] = <<>>]
    /\ UNCHANGED <<globalsKept, unseen, tasks, session_end, sleep_s>>

\* if self.humanizer.should_take_break(): take_break(); the outcome of
\* should_take_break() is left to the humanizer's counters
BreakCheck(t) ==
    /\ pc[t] = "break_check"
    /\ \E break \in BOOLEAN :
          IF break
             THEN /\ \E d \in BreakDurations : sleep_s' = [sleep_s EXCEPT ![t] = d]
                  /\ pc' = [pc EXCEPT ![t] = "break_sleep"]
                  /\ UNCHANGED tasks
             ELSE /\ pc' = [pc EXCEPT ![t] = "for"]
                  /\ tasks' = [tasks EXCEPT ![t] = Tail(tasks[t])]
                  /\ UNCHANGED sleep_s
    /\ UNCHANGED <<globalsKept, unseen, now, outcome, logged, session_end>>

\* take_break: time.sleep(duration) is over
TakeBreak(t) ==
    /\ pc[t] = "break_sleep"
    /\ \E c \in {0, 1} : now' = Elapse(sleep_s[t], c)
    /\ pc' = [pc EXCEPT ![t] = "for"]
    /\ tasks' = [tasks EXCEPT ![t] = Tail(tasks[t])]
    /\ sleep_s' = [sleep_s EXCEPT ![t] = 0]
    /\ UNCHANGED <<globalsKept, unseen, outcome, logged, session_end>>

\* ------------------------------------------------ the loop-level handler
\* an exception escapes the cycle body
LoopRaise(t) ==
    /\ pc[t] \in BodyPcs
    /\ errors < MaxErrors
    /\ pc' = [pc EXCEPT ![t] = "except"]
    /\ sleep_s' = [sleep_s EXCEPT ![t] = 0]
    /\ tasks' = [tasks EXCEPT ![t] = <<>>]
    /\ outcome' = [outcome EXCEPT ![t] = None]
    /\ logged' = [logged EXCEPT ![t] = <<>>]
    /\ UNCHANGED <<globalsKept, unseen, now, session_end>>

\* variant: the handler logs the error and retries at once, without the cooldown
LoopExcept_NoCooldown(t) ==
    /\ pc[t] = "except"
    /\ errors' = errors + 1
    /\ pc' = [pc EXCEPT ![t] = "while"]
    /\ UNCHANGED <<unseen, botVars, current_task, enabled_tasks, statVars, stats_file,
                   sessionVars, callVars, pauseVars, commands, now, localVars, sleep_s>>

\* except Exception as e: self.logger.log_error(..); time.sleep(30)
LoopExcept(t) ==
    /\ pc[t] = "except"
    /\ errors' = errors + 1
    /\ pc' = [pc EXCEPT ![t] = "cooldown"]
    /\ sleep_s' = [sleep_s EXCEPT ![t] = CooldownSeconds]
    /\ UNCHANGED <<unseen, botVars, current_task, enabled_tasks, statVars, stats_file,
                   sessionVars, callVars, pauseVars, commands, now, localVars>>

\* time.sleep(30) is over: back to while self.running
Cooldown(t) ==
    /\ pc[t] = "cooldown"
    /\ \E c \in {0, 1} : now' = Elapse(sleep_s[t], c)
    /\ pc' = [pc EXCEPT ![t] = "while"]
    /\ sleep_s' = [sleep_s EXCEPT ![t] = 0]
    /\ UNCHANGED <<globalsKept, unseen, localVars>>

\* ------------------------------------------------------------ specification
ThreadStep(t) ==
    \/ While(t) \/ CheckPause(t) \/ PausePoll(t)
    \/ SessionCheck(t) \/ SessionSleep(t)
    \/ GetTasks(t) \/ ForStep(t) \/ CycleSleep(t)
    \/ ExecuteTask(t) \/ CreateTaskInstance(t) \/ Execute(t)
    \/ InnerLogAction(t) \/ InnerLogFlag(t) \/ LogAction(t) \/ LogActionFlag(t)
    \/ TaskEnd(t) \/ TaskRaise(t) \/ TaskExcept(t)
    \/ WaitHuman(t) \/ BreakCheck(t) \/ TakeBreak(t)
    \/ LoopRaise(t) \/ LoopExcept(t) \/ Cooldown(t)

\* BotGUI.start_bot once the previous execution thread has finished
StartBot == \E t \in Threads : Start(t) /\ \A u \in Threads : pc[u] = "idle"

\* BotGUI.start_bot while an earlier execution thread is still alive
RestartBot == \E t \in Threads : Start(t) /\ \E u \in Threads : pc[u] # "idle"

Command ==
    \/ StartBot
    \/ Stop
    \/ Pause
    \/ Resume
    \/ \E task \in TaskTypes, enabled \in BOOLEAN : SetTaskEnabled(task, enabled)

\* the program with one execution thread at a time
LoopNext == Command \/ \E t \in Threads : ThreadStep(t)

LoopSpec == Init /\ [][LoopNext]_vars

\* the program as the GUI drives it: start_bot is possible as soon as stop_bot returned
Next == LoopNext \/ RestartBot

Spec == Init /\ [][Next]_vars

\* one execution thread at a time, and a live thread keeps taking steps:
\* each sleep and each task execution finishes
FairSpec == LoopSpec /\ \A t \in Threads : WF_vars(ThreadStep(t))

\* ------------------------------------------------------------------ claims
Alive(t) == pc[t] # "idle"

\* C1: an exception that escapes the cycle body is handled at the loop level:
\* the handler logs one error and sleeps the fixed 30 s cooldown, after the
\* cooldown the thread is back at "while self.running", which starts another
\* cycle when running is true; a thread leaves the loop only from that test
\* and only when running is false.
C1_LoopLevelRecovery ==
    [][\A t \in Threads :
        /\ (pc[t] = "except" /\ pc'[t] # "except")
              => /\ pc'[t] = "cooldown"
                 /\ errors' = errors + 1
                 /\ sleep_s'[t] = CooldownSeconds
        /\ (pc[t] = "cooldown" /\ pc'[t] # "cooldown") => pc'[t] = "while"
        /\ (pc[t] = "while" /\ pc'[t] # "while" /\ running) => pc'[t] = "check_pause"
        /\ (Alive(t) /\ ~Alive(t)') => (pc[t] = "while" /\ ~running)]_vars

C1_Witness == \E t \in Threads : pc[t] = "cooldown" /\ sleep_s[t] = CooldownSeconds
                                 /\ errors > 0 /\ running

\* C2: at most one thread executes the control loop and at most one task
\* execution is in progress.
C2_SingleExecutionThread ==
    /\ Cardinality({t \in Threads : Alive(t)}) <= 1
    /\ Cardinality({t \in Threads : pc[t] \in ExecPcs}) <= 1

\* C3: once pause() has been called, a thread of the control loop begins at
\* most one further task execution until resume() is called.
C3_PauseSuspendsDispatch ==
    \A t \in Threads : pause_pending[t] => begun_since_pause[t] <= 1

\* C4: once running is false and stays false (stop() without a later start()),
\* every thread eventually leaves the loop.
C4_StopEventuallyExits == (~running) ~> (running \/ \A t \in Threads : ~Alive(t))

C4_Witness == /\ ~running /\ \A t \in Threads : ~Alive(t)
              /\ stats_file >= 0 /\ total_actions > 0

\* C5: an exception raised while a task is dispatched is caught by
\* _execute_task, which logs one error and clears current_task; the loop goes
\* on with the inter-task wait, the task list of the cycle untouched.
C5_TaskExceptionIsolated ==
    [][\A t \in Threads :
        /\ (outcome'[t] = "raised" /\ outcome[t] # "raised") => pc'[t] = "task_except"
        /\ (pc[t] = "task_except" /\ pc'[t] # "task_except")
              => /\ pc'[t] = "wait_human"
                 /\ errors' = errors + 1
                 /\ current_task' = None
                 /\ tasks'[t] = tasks[t]
        /\ (pc[t] = "wait_human" /\ outcome[t] = "raised" /\ pc'[t] # "wait_human")
              => pc'[t] \in {"break_check", "except"}]_vars

C5_Witness == \E t \in Threads : /\ pc[t] = "wait_human" /\ outcome[t] = "raised"
                                 /\ errors > 0 /\ Len(tasks[t]) > 1

\* C6: in a cycle in which should_end_session() returned true the thread goes
\* straight into the sleep of get_next_session_delay() seconds and executes no
\* task before the next cycle.
C6_SessionEndSkipsTasks ==
    [][\A t \in Threads :
        /\ (session_end'[t] /\ ~session_end[t])
              => /\ pc'[t] = "session_sleep"
                 /\ sleep_s'[t] >= NextSessionDelayMin
                 /\ sleep_s'[t] <= NextSessionDelayMax
        /\ session_end'[t] => pc'[t] \in {"session_sleep", "while", "except", "cooldown"}]_vars

C6_Witness == \E t \in Threads : session_end[t] /\ pc[t] = "session_sleep"

\* C7: when the inter-session gap is over a new session has begun, so the
\* elapsed time no longer forces should_end_session() to return true.
C7_GapStartsNewSession ==
    [][\A t \in Threads :
        (pc[t] = "session_sleep" /\ pc'[t] = "while")
            => (now' - session_start') * TickSeconds < session_duration']_vars

\* C8: a thread starts an inter-cycle delay, a break or an inter-session gap
\* only when it has re-checked the flags since the last pause() or stop()
\* request, and while paused is set it starts no sleep but the 1 s poll and
\* single humanized waits.
C8_PromptPauseStop ==
    [][\A t \in Threads :
        (pc[t] \notin LongSleepPcs /\ pc'[t] \in LongSleepPcs)
            => (~unseen'[t] /\ ~paused)]_vars

\* C9: a task execution that returned false or raised has increased
\* failed_actions by exactly one and successful_actions not at all.
Count(seq, v) == Cardinality({i \in 1..Len(seq) : seq[i] = v})

C9_FailureCountedOnce ==
    \A t \in Threads :
        (pc[t] = "wait_human" /\ outcome[t] \in {"false", "raised"})
            => (Count(logged[t], FALSE) = 1 /\ Count(logged[t], TRUE) = 0)

\* C10: a task execution has called log_action exactly once, with the value
\* execute() returned.
C10_OneOutcomePerExecution ==
    \A t \in Threads :
        (pc[t] = "wait_human" /\ outcome[t] # None)
            => /\ Len(logged[t]) = 1
               /\ outcome[t] \in {"true", "false"}
               /\ logged[t][1] = (outcome[t] = "true")

\* ======================================================================
\*  Tasks (state_machine.py): one execute() call, one find_and_tap per step
\* ======================================================================

\* ------------------------------------------------------------- bounds

MaxAttackCount == 2     \* largest BarbarianAttackTask.attack_count drawn

\* --------------------------------------------------- program constants
max_helps  == 50
max_quests == 20

\* the classes whose execute() is modelled
StepSequenceTasks == {"ResourceGatheringTask", "TroopTrainingTask", "BuildingUpgradeTask",
                      "ResearchTask", "HealTroopsTask", "GatherGemsTask"}
CollectionTasks   == {"AllianceHelpTask", "CollectChestsTask", "DailyQuestsTask"}
TaskClasses       == StepSequenceTasks \cup CollectionTasks
                         \cup {"BarbarianAttackTask", "NewPlayerTutorialTask"}

\* the keys of ResourceGatheringTask.resource_templates, and the configured types drawn
resource_templates == {"food", "wood", "stone", "gold"}
ResourceTypes      == {"food", "oil"}

\* what the device and the perception engine do during one find_and_tap:
\* the capture fails, the template is absent, it is found and the tap is
\* dispatched, or it is found and the dispatch of the tap fails
StepOutcomes == {"found", "not_found", "no_screenshot", "tap_failed"}

\* RoKADBClient.get_screenshot: None without a device, on empty data, on any exception
get_screenshot(o) == IF o = "no_screenshot" THEN None ELSE "image"

\* RoKADBClient.tap: False without a device or on any exception
tap(o) == o # "tap_failed"

\* find_template on the captured image returned a region
TemplateFound(o) == o \in {"found", "tap_failed"}

\* the value find_and_tap returns; the value of tap() is not read
find_and_tap(o) ==
    IF get_screenshot(o) = None THEN FALSE
    ELSE IF TemplateFound(o) THEN TRUE
    ELSE FALSE

\* the effects of one find_and_tap on the template named by step
FindAndTap(o) ==
    /\ tapped' = IF get_screenshot(o) # None /\ TemplateFound(o)
                 THEN Append(tapped, step) ELSE tapped
    /\ io_failed' = (io_failed \/ get_screenshot(o) = None
                               \/ (TemplateFound(o) /\ ~tap(o)))

Return(v) == returned' = v /\ step' = "done"
Goto(s)   == step' = s /\ UNCHANGED returned
Log(e)    == events' = [events EXCEPT ![e] = @ + 1]

\* the element that follows s in a sequence without repetitions
StepAfter(seq, s) == seq[(CHOOSE i \in 1..Len(seq) : seq[i] = s) + 1]

taskKept == <<call, attack_count, resource_type, task_type, task_instance,
              loopVars, imageVars, utilVars>>
callKept == <<taskKept, break_checks>>

\* ------------------------------------------------------- the templates
ResourceGatheringSteps ==
    <<"map_button", "search_button", "resource_icon", "resource_node",
      "gather_button", "commander_slot", "confirm_button">>
TroopTrainingSteps ==
    <<"barracks", "train_button", "troop_icon", "max_button", "train_confirm_button">>
GatherGemsSteps ==
    <<"map_button", "search_button", "gem_icon", "gem_deposit",
      "gather_button", "commander_slot", "confirm_button">>
AttackSteps ==
    <<"map_button", "search_button", "barbarian_filter", "barbarian_level",
      "barbarian_fort", "attack_button", "commander_slot_1", "commander_slot_2",
      "march_button">>

FirstStep(k) ==
    CASE k = "ResourceGatheringTask" -> "map_button"
      [] k = "TroopTrainingTask"     -> "barracks"
      [] k = "BuildingUpgradeTask"   -> "upgrade_indicator"
      [] k = "ResearchTask"          -> "academy"
      [] k = "HealTroopsTask"        -> "hospital"
      [] k = "GatherGemsTask"        -> "map_button"
      [] k = "AllianceHelpTask"      -> "alliance_button"
      [] k = "CollectChestsTask"     -> "free_chest"
      [] k = "DailyQuestsTask"       -> "quests_button"
      [] k = "BarbarianAttackTask"   -> "for"
      [] k = "NewPlayerTutorialTask" -> "is_tutorial_active"

\* task.execute() is entered with the settings the task was constructed with
\* the members of the TaskType enumeration
TaskTypeMembers ==
    {"gather_resources", "train_troops", "upgrade_buildings", "research_tech",
     "attack_barbarians", "heal_troops", "collect_resources", "alliance_help",
     "daily_quests", "collect_chests", "vip_chests", "free_chests",
     "new_player_tutorial", "explore_fog", "gather_gems"}

\* BotCore._create_task_instance: the class of the task it returns for a
\* task type, None at the final `return None`
create_task_instance(type) ==
    CASE type = "gather_resources"    -> "ResourceGatheringTask"
      [] type = "train_troops"        -> "TroopTrainingTask"
      [] type = "upgrade_buildings"   -> "BuildingUpgradeTask"
      [] type = "research_tech"       -> "ResearchTask"
      [] type = "attack_barbarians"   -> "BarbarianAttackTask"
      [] type = "heal_troops"         -> "HealTroopsTask"
      [] type = "alliance_help"       -> "AllianceHelpTask"
      [] type = "collect_chests"      -> "CollectChestsTask"
      [] type = "daily_quests"        -> "DailyQuestsTask"
      [] type = "new_player_tutorial" -> "NewPlayerTutorialTask"
      [] type = "explore_fog"         -> "ExploreFogTask"
      [] type = "gather_gems"         -> "GatherGemsTask"
      [] OTHER                        -> None

\* _execute_task: task_instance = self._create_task_instance(task_type)
CreateInstance ==
    /\ call = None /\ task_type = None
    /\ \E type \in TaskTypeMembers :
        /\ task_type' = type
        /\ task_instance' = create_task_instance(type)
    /\ UNCHANGED <<call, step, tapped, returned, events, count, attack_count, attempts,
                   resource_type, missed, io_failed, break_checks,
                   loopVars, imageVars, utilVars>>

\* task_instance.execute() begins, on the instance _execute_task created or
\* on one constructed directly
CallExecute ==
    /\ call = None
    /\ \E k \in TaskClasses :
        /\ task_type = None \/ task_instance = k
        /\ call' = k
        /\ step' = FirstStep(k)
        /\ resource_type' \in IF k = "ResourceGatheringTask" THEN ResourceTypes ELSE {None}
        /\ attack_count' \in IF k = "BarbarianAttackTask" THEN 0..MaxAttackCount ELSE {0}
    /\ UNCHANGED <<tapped, returned, events, count, attempts, missed, io_failed,
                   break_checks, task_type, task_instance, loopVars, imageVars, utilVars>>

\* ------------------------------------------- ResourceGatheringTask.execute
\* variant: a step that finds nothing does not end the call
ResourceGatheringTask_NoAbort ==
    /\ call = "ResourceGatheringTask" /\ returned = None
    /\ \E o \in StepOutcomes :
        /\ FindAndTap(o)
        /\ missed' = (missed \/ o = "not_found")
        /\ IF step = "search_button" /\ resource_type \notin resource_templates
           THEN Return("false") /\ UNCHANGED events
           ELSE IF step = "confirm_button"
           THEN Log("gathering_trips") /\ Return("true")
           ELSE Goto(StepAfter(ResourceGatheringSteps, step)) /\ UNCHANGED events
    /\ UNCHANGED <<count, attempts, callKept>>

\* ------------------------------------------- ResourceGatheringTask.execute
ResourceGatheringTask ==
    /\ call = "ResourceGatheringTask" /\ returned = None
    /\ \E o \in StepOutcomes :
        /\ FindAndTap(o)
        /\ missed' = (missed \/ o = "not_found")
        /\ IF ~find_and_tap(o)
           THEN Return("false") /\ UNCHANGED events
           ELSE IF step = "search_button" /\ resource_type \notin resource_templates
           THEN Return("false") /\ UNCHANGED events
           ELSE IF step = "confirm_button"
           THEN Log("gathering_trips") /\ Return("true")
           ELSE Goto(StepAfter(ResourceGatheringSteps, step)) /\ UNCHANGED events
    /\ UNCHANGED <<count, attempts, callKept>>

\* ----------------------------------------------- TroopTrainingTask.execute
TroopTrainingTask ==
    /\ call = "TroopTrainingTask" /\ returned = None
    /\ \E o \in StepOutcomes :
        /\ FindAndTap(o)
        /\ missed' = (missed \/ o = "not_found")
        /\ IF ~find_and_tap(o)
           THEN Return("false") /\ UNCHANGED events
           ELSE IF step = "train_confirm_button"
           THEN Log("troops_trained") /\ Return("true")
           ELSE Goto(StepAfter(TroopTrainingSteps, step)) /\ UNCHANGED events
    /\ UNCHANGED <<count, attempts, callKept>>

\* --------------------------------------------- BuildingUpgradeTask.execute
\* variant: the speed-up is a required step
BuildingUpgradeTask_SpeedupRequired ==
    /\ call = "BuildingUpgradeTask" /\ returned = None
    /\ \E o \in StepOutcomes :
        /\ FindAndTap(o)
        /\ CASE step = "upgrade_indicator" ->
                  /\ UNCHANGED <<missed, events>>
                  /\ IF find_and_tap(o) THEN Goto("upgrade_button")
                                        ELSE Goto("recommended_button")
             [] step = "recommended_button" ->
                  /\ missed' = (missed \/ o = "not_found")
                  /\ UNCHANGED events
                  /\ IF find_and_tap(o) THEN Goto("upgrade_button") ELSE Return("false")
             [] step = "upgrade_button" ->
                  /\ missed' = (missed \/ o = "not_found")
                  /\ IF find_and_tap(o)
                     THEN \/ Goto("use_speedup") /\ UNCHANGED events
                          \/ Log("buildings_upgraded") /\ Return("true")
                     ELSE Return("false") /\ UNCHANGED events
             [] step = "use_speedup" ->
                  /\ UNCHANGED missed
                  /\ IF find_and_tap(o)
                     THEN Log("buildings_upgraded") /\ Return("true")
                     ELSE Return("false") /\ UNCHANGED events
    /\ UNCHANGED <<count, attempts, callKept>>

\* --------------------------------------------- BuildingUpgradeTask.execute
\* _find_upgradeable_building tries the indicator, then the recommended
\* shortcut; _upgrade_building taps the upgrade button and, when
\* random.random() < 0.3, looks for the speed-up, whose result is not read
BuildingUpgradeTask ==
    /\ call = "BuildingUpgradeTask" /\ returned = None
    /\ \E o \in StepOutcomes :
        /\ FindAndTap(o)
        /\ CASE step = "upgrade_indicator" ->
                  /\ UNCHANGED <<missed, events>>
                  /\ IF find_and_tap(o) THEN Goto("upgrade_button")
                                        ELSE Goto("recommended_button")
             [] step = "recommended_button" ->
                  /\ missed' = (missed \/ o = "not_found")
                  /\ UNCHANGED events
                  /\ IF find_and_tap(o) THEN Goto("upgrade_button") ELSE Return("false")
             [] step = "upgrade_button" ->
                  /\ missed' = (missed \/ o = "not_found")
                  /\ IF find_and_tap(o)
                     THEN \/ Goto("use_speedup") /\ UNCHANGED events
                          \/ Log("buildings_upgraded") /\ Return("true")
                     ELSE Return("false") /\ UNCHANGED events
             [] step = "use_speedup" ->
                  /\ UNCHANGED missed
                  /\ Log("buildings_upgraded") /\ Return("true")
    /\ UNCHANGED <<count, attempts, callKept>>

\* ---------------------------------------------------- ResearchTask.execute
ResearchTask ==
    /\ call = "ResearchTask" /\ returned = None
    /\ \E o \in StepOutcomes :
        /\ FindAndTap(o)
        /\ CASE step = "academy" ->
                  /\ missed' = (missed \/ o = "not_found")
                  /\ UNCHANGED events
                  /\ IF find_and_tap(o) THEN Goto("recommended_research")
                                        ELSE Return("false")
             [] step = "recommended_research" ->
                  /\ UNCHANGED <<missed, events>>
                  /\ IF find_and_tap(o) THEN Goto("research_button")
                                        ELSE Goto("research_available")
             [] step = "research_available" ->
                  /\ missed' = (missed \/ o = "not_found")
                  /\ UNCHANGED events
                  /\ IF find_and_tap(o) THEN Goto("research_button") ELSE Return("false")
             [] step = "research_button" ->
                  /\ missed' = (missed \/ o = "not_found")
                  /\ IF find_and_tap(o)
                     THEN Log("researches_started") /\ Return("true")
                     ELSE Return("false") /\ UNCHANGED events
    /\ UNCHANGED <<count, attempts, callKept>>

\* -------------------------------------------------- HealTroopsTask.execute
\* without the hospital the call returns False; without the heal-all button
\* or the confirmation it falls through to the final `return True`
HealTroopsTask ==
    /\ call = "HealTroopsTask" /\ returned = None
    /\ \E o \in StepOutcomes :
        /\ FindAndTap(o)
        /\ missed' = (missed \/ o = "not_found")
        /\ CASE step = "hospital" ->
                  /\ UNCHANGED events
                  /\ IF find_and_tap(o) THEN Goto("heal_all_button") ELSE Return("false")
             [] step = "heal_all_button" ->
                  /\ UNCHANGED events
                  /\ IF find_and_tap(o) THEN Goto("confirm_heal") ELSE Return("true")
             [] step = "confirm_heal" ->
                  /\ IF find_and_tap(o) THEN Log("actions") ELSE UNCHANGED events
                  /\ Return("true")
    /\ UNCHANGED <<count, attempts, callKept>>

\* -------------------------------------------------- GatherGemsTask.execute
GatherGemsTask ==
    /\ call = "GatherGemsTask" /\ returned = None
    /\ \E o \in StepOutcomes :
        /\ FindAndTap(o)
        /\ missed' = (missed \/ o = "not_found")
        /\ IF ~find_and_tap(o)
           THEN Return("false") /\ UNCHANGED events
           ELSE IF step = "confirm_button"
           THEN /\ events' = [events EXCEPT !["actions"] = @ + 1,
                                            !["gathering_trips"] = @ + 1]
                /\ Return("true")
           ELSE Goto(StepAfter(GatherGemsSteps, step)) /\ UNCHANGED events
    /\ UNCHANGED <<count, attempts, callKept>>

\* the value execute() returns for a Python bool
Bool(b) == IF b THEN "true" ELSE "false"

\* ------------------------------------------------ AllianceHelpTask.execute
\* variant: the loop has no safety limit
AllianceHelpTask_NoLimit ==
    /\ call = "AllianceHelpTask" /\ returned = None
    /\ \E o \in StepOutcomes :
        /\ FindAndTap(o)
        /\ missed' = (missed \/ o = "not_found")
        /\ CASE step = "alliance_button" ->
                  /\ UNCHANGED <<events, count>>
                  /\ IF find_and_tap(o) THEN Goto("help_all_button") ELSE Return("false")
             [] step = "help_all_button" ->
                  IF find_and_tap(o)
                  THEN /\ count' = count + 1
                       /\ Log("alliance_helps")
                       /\ Goto("help_all_button")
                  ELSE /\ Return(Bool(count > 0))
                       /\ UNCHANGED <<events, count>>
    /\ UNCHANGED <<attempts, callKept>>

\* ------------------------------------------------ AllianceHelpTask.execute
\* while find_and_tap(help_all_button): help_count += 1; log_alliance_help();
\* if help_count >= max_helps: break.  Then press_back, return help_count > 0
AllianceHelpTask ==
    /\ call = "AllianceHelpTask" /\ returned = None
    /\ \E o \in StepOutcomes :
        /\ FindAndTap(o)
        /\ missed' = (missed \/ o = "not_found")
        /\ CASE step = "alliance_button" ->
                  /\ UNCHANGED <<events, count>>
                  /\ IF find_and_tap(o) THEN Goto("help_all_button") ELSE Return("false")
             [] step = "help_all_button" ->
                  IF find_and_tap(o)
                  THEN /\ count' = count + 1
                       /\ Log("alliance_helps")
                       /\ IF count + 1 >= max_helps THEN Return(Bool(count + 1 > 0))
                                                    ELSE Goto("help_all_button")
                  ELSE /\ Return(Bool(count > 0))
                       /\ UNCHANGED <<events, count>>
    /\ UNCHANGED <<attempts, callKept>>

\* ------------------------------------------------- DailyQuestsTask.execute
DailyQuestsTask ==
    /\ call = "DailyQuestsTask" /\ returned = None
    /\ \E o \in StepOutcomes :
        /\ FindAndTap(o)
        /\ missed' = (missed \/ o = "not_found")
        /\ CASE step = "quests_button" ->
                  /\ UNCHANGED <<events, count>>
                  /\ IF find_and_tap(o) THEN Goto("collect_quest") ELSE Return("false")
             [] step = "collect_quest" ->
                  IF find_and_tap(o)
                  THEN /\ count' = count + 1
                       /\ Log("daily_quests_completed")
                       /\ IF count + 1 >= max_quests THEN Return(Bool(count + 1 > 0))
                                                     ELSE Goto("collect_quest")
                  ELSE /\ Return(Bool(count > 0))
                       /\ UNCHANGED <<events, count>>
    /\ UNCHANGED <<attempts, callKept>>

\* ----------------------------------------------- CollectChestsTask.execute
\* _collect_free_chest, _collect_vip_chest, _collect_daily_chest in turn,
\* each a chest template followed by its open/claim template (the free and
\* the VIP chest share open_chest.png); return chests_collected > 0
CollectChestsTask ==
    /\ call = "CollectChestsTask" /\ returned = None
    /\ \E o \in StepOutcomes :
        /\ FindAndTap(o)
        /\ missed' = (missed \/ o = "not_found")
        /\ CASE step = "free_chest" ->
                  /\ UNCHANGED <<events, count>>
                  /\ IF find_and_tap(o) THEN Goto("open_free_chest") ELSE Goto("vip_chest")
             [] step = "open_free_chest" ->
                  /\ IF find_and_tap(o)
                     THEN count' = count + 1 /\ Log("chests_collected")
                     ELSE UNCHANGED <<events, count>>
                  /\ Goto("vip_chest")
             [] step = "vip_chest" ->
                  /\ UNCHANGED <<events, count>>
                  /\ IF find_and_tap(o) THEN Goto("open_vip_chest")
                                        ELSE Goto("daily_objectives")
             [] step = "open_vip_chest" ->
                  /\ IF find_and_tap(o)
                     THEN count' = count + 1 /\ Log("chests_collected")
                     ELSE UNCHANGED <<events, count>>
                  /\ Goto("daily_objectives")
             [] step = "daily_objectives" ->
                  /\ UNCHANGED <<events, count>>
                  /\ IF find_and_tap(o) THEN Goto("claim_reward")
                                        ELSE Return(Bool(count > 0))
             [] step = "claim_reward" ->
                  IF find_and_tap(o)
                  THEN /\ count' = count + 1
                       /\ Log("chests_collected")
                       /\ Return(Bool(count + 1 > 0))
                  ELSE /\ Return(Bool(count > 0))
                       /\ UNCHANGED <<events, count>>
    /\ UNCHANGED <<attempts, callKept>>

\* --------------------------------------------- BarbarianAttackTask.execute
\* for attack_index in range(attack_count): the next attempt starts, or the
\* loop is exhausted and the call returns attacks_completed > 0
BarbarianAttackFor ==
    /\ call = "BarbarianAttackTask" /\ returned = None /\ step = "for"
    /\ IF attempts < attack_count
       THEN attempts' = attempts + 1 /\ Goto("map_button")
       ELSE Return(Bool(count > 0)) /\ UNCHANGED attempts
    /\ UNCHANGED <<tapped, events, count, missed, io_failed, callKept>>

\* variant of the attack steps: a failed attempt does not break the loop
BarbarianAttackTask_NoBreak ==
    /\ call = "BarbarianAttackTask" /\ returned = None /\ step # "for"
    /\ \E o \in StepOutcomes :
        /\ FindAndTap(o)
        /\ missed' = (missed \/ o = "not_found")
        /\ IF ~find_and_tap(o)
           THEN Goto("for") /\ UNCHANGED <<events, count, break_checks>>
           ELSE IF step = "march_button"
           THEN /\ count' = count + 1 /\ Log("barbarians_killed") /\ Goto("for")
                /\ break_checks' = break_checks + 1
           ELSE Goto(StepAfter(AttackSteps, step)) /\ UNCHANGED <<events, count, break_checks>>
    /\ UNCHANGED <<attempts, taskKept>>

\* _attack_barbarian and _send_attack_troops: nine templates in a row; a
\* step that fails ends the attempt and breaks the loop, the last one found
\* counts the attack and records the kill, and is followed by wait_human(5.0)
\* and by the break check (should_take_break, take_break when it is due)
BarbarianAttackTask ==
    /\ call = "BarbarianAttackTask" /\ returned = None /\ step # "for"
    /\ \E o \in StepOutcomes :
        /\ FindAndTap(o)
        /\ missed' = (missed \/ o = "not_found")
        /\ IF ~find_and_tap(o)
           THEN Return(Bool(count > 0)) /\ UNCHANGED <<events, count, break_checks>>
           ELSE IF step = "march_button"
           THEN /\ count' = count + 1 /\ Log("barbarians_killed") /\ Goto("for")
                /\ break_checks' = break_checks + 1
           ELSE Goto(StepAfter(AttackSteps, step)) /\ UNCHANGED <<events, count, break_checks>>
    /\ UNCHANGED <<attempts, taskKept>>

\* the prompts the tutorial loop looks for, in this order
TutorialPrompts == <<"tutorial_arrow", "tutorial_ok", "tutorial_next", "tutorial_claim">>

\* the prompts whose tap counts as a tutorial step
CountedPrompts == {"tutorial_arrow", "tutorial_claim"}

\* NewPlayerTutorialTask.execute: the activity check, then
\* while tutorial_steps < max_steps with the first prompt found tapped and a
\* break check after it, until no prompt is found; count holds
\* tutorial_steps and attempts the passes of the loop that found a prompt
\* (the taps of this task are counted, not listed in tapped)
NewPlayerTutorialTask ==
    /\ call = "NewPlayerTutorialTask" /\ returned = None
    /\ CASE step = "is_tutorial_active" ->
              \E o \in StepOutcomes :
                  /\ io_failed' = (io_failed \/ get_screenshot(o) = None)
                  /\ IF get_screenshot(o) # None /\ TemplateFound(o)
                     THEN Goto("while") ELSE Return("false")
                  /\ UNCHANGED <<events, count, attempts, missed, break_checks>>
         [] step = "while" ->
              /\ attempts < MaxIterations
              /\ IF count < max_steps
                 THEN Goto("tutorial_arrow") /\ UNCHANGED events
                 ELSE Log("actions") /\ Return("true")
              /\ UNCHANGED <<count, attempts, missed, io_failed, break_checks>>
         [] OTHER ->
              \E o \in StepOutcomes :
                  /\ io_failed' = (io_failed \/ get_screenshot(o) = None
                                             \/ (TemplateFound(o) /\ ~tap(o)))
                  /\ missed' = (missed \/ o = "not_found")
                  /\ IF find_and_tap(o)
                     THEN /\ count' = IF step \in CountedPrompts THEN count + 1 ELSE count
                          /\ attempts' = attempts + 1
                          /\ break_checks' = break_checks + 1
                          /\ Goto("while")
                          /\ UNCHANGED events
                     ELSE /\ UNCHANGED <<count, attempts, break_checks>>
                          /\ IF step = "tutorial_claim"
                             THEN Log("actions") /\ Return("true")
                             ELSE Goto(StepAfter(TutorialPrompts, step)) /\ UNCHANGED events
    /\ UNCHANGED <<tapped, taskKept>>

\* ---------------------------------------------------------- specification
TaskNext ==
    \/ CreateInstance
    \/ CallExecute
    \/ ResourceGatheringTask
    \/ TroopTrainingTask
    \/ BuildingUpgradeTask
    \/ ResearchTask
    \/ HealTroopsTask
    \/ GatherGemsTask
    \/ AllianceHelpTask
    \/ DailyQuestsTask
    \/ CollectChestsTask
    \/ BarbarianAttackFor
    \/ BarbarianAttackTask
    \/ NewPlayerTutorialTask

TaskSpec == Init /\ [][TaskNext]_vars

\* ======================================================================
\*  Claims on the tasks
\* ======================================================================

\* C11: in a step-sequence task (resource gathering, troop training,
\* building upgrade, research, heal troops, gem gathering), once a step
\* other than the optional building speed-up has failed to find its template
\* (a step with a fallback template fails when the fallback is not found
\* either), execute() returns false; it never ends otherwise than by
\* returning a value.
C11_MissingTemplateAborts ==
    (call \in StepSequenceTasks /\ missed) => returned = "false"

\* s is an initial segment of seq
IsPrefix(s, seq) == Len(s) <= Len(seq) /\ \A i \in 1..Len(s) : s[i] = seq[i]

\* C12: ResourceGatheringTask.execute() taps its templates in the fixed
\* order map, search, resource filter, node, gather, commander slot,
\* confirm; at the first step whose template is not found no further tap is
\* made, it returns false and records no gathering trip; when all seven
\* steps succeed it returns true and records exactly one gathering trip.
C12_GatheringOrder ==
    call = "ResourceGatheringTask" =>
        /\ IsPrefix(tapped, ResourceGatheringSteps)
        /\ missed => returned = "false"
        /\ returned = "false" =>
              /\ tapped # ResourceGatheringSteps
              /\ events["gathering_trips"] = 0
        /\ tapped = ResourceGatheringSteps =>
              /\ returned = "true"
              /\ events["gathering_trips"] = 1
        /\ returned = "true" => tapped = ResourceGatheringSteps

\* a gathering call that found all seven templates and returned true
C12_Witness ==
    /\ call = "ResourceGatheringTask"
    /\ returned = "true"
    /\ tapped = ResourceGatheringSteps
    /\ events["gathering_trips"] = 1

\* a task call runs in the execution thread and every find_and_tap returns
FairTaskSpec == TaskSpec /\ WF_vars(TaskNext)

\* the collections CollectChestsTask.execute attempts: free, VIP, daily
ChestKinds == {"free_chest", "vip_chest", "daily_objectives"}

\* C13: AllianceHelpTask, CollectChestsTask and DailyQuestsTask always
\* terminate, even when the template is found on every check: alliance help
\* makes at most 50 collections, daily quests at most 20, chests at most 3,
\* and every call of the three returns.
C13_CollectionsTerminate ==
    /\ [](call = "AllianceHelpTask" =>
             /\ count <= max_helps
             /\ events["alliance_helps"] = count
             /\ count = max_helps => returned # None)
    /\ [](call = "DailyQuestsTask" =>
             /\ count <= max_quests
             /\ events["daily_quests_completed"] = count
             /\ count = max_quests => returned # None)
    /\ [](call = "CollectChestsTask" =>
             /\ count <= Cardinality(ChestKinds)
             /\ events["chests_collected"] = count)
    /\ (call \in CollectionTasks ~> returned # None)

\* an alliance-help call that found the button on every check and stopped
\* at the safety limit
C13_Witness ==
    /\ call = "AllianceHelpTask"
    /\ count = max_helps
    /\ Len(tapped) = max_helps + 1
    /\ ~missed
    /\ returned = "true"

\* attempts of the call that tapped all nine templates, and attempts that ended
\* at a failed step
SuccessfulAttempts == Count(tapped, "march_button")
FailedAttempts ==
    attempts - SuccessfulAttempts
             - (IF \E i \in 1..Len(AttackSteps) : step = AttackSteps[i] THEN 1 ELSE 0)

\* C14: BarbarianAttackTask.execute() makes at most attack_count attempts and
\* none after the first failed one, records exactly one barbarian-kill event
\* per successful attempt, and returns true exactly when at least one attempt
\* succeeded (false when attack_count is 0).
C14_BarbarianAttempts ==
    call = "BarbarianAttackTask" =>
        /\ attempts <= attack_count
        /\ FailedAttempts <= 1
        /\ FailedAttempts = 1 => returned # None
        /\ events["barbarians_killed"] = SuccessfulAttempts
        /\ returned = "true" => SuccessfulAttempts >= 1
        /\ returned = "false" => SuccessfulAttempts = 0
        /\ (attack_count = 0 /\ returned # None) => returned = "false"

\* a call with two attacks configured whose first attempt succeeded and whose
\* second failed
C14_Witness ==
    /\ call = "BarbarianAttackTask"
    /\ attack_count = 2
    /\ attempts = 2
    /\ SuccessfulAttempts = 1
    /\ FailedAttempts = 1
    /\ returned = "true"

\* the call found and tapped template s
Tapped(s) == \E i \in 1..Len(tapped) : tapped[i] = s

\* C15: BuildingUpgradeTask.execute() returns true and records exactly one
\* building-upgrade event if and only if the upgrade indicator or, failing
\* that, the recommended shortcut was found and then the upgrade button was
\* found, whatever the speed-up sub-step did; otherwise it records none.
C15_UpgradeRecorded ==
    (call = "BuildingUpgradeTask" /\ returned # None) =>
        LET located   == Tapped("upgrade_indicator") \/ Tapped("recommended_button")
            confirmed == Tapped("upgrade_button")
        IN  /\ returned = "true" <=> (located /\ confirmed)
            /\ events["buildings_upgraded"] = (IF located /\ confirmed THEN 1 ELSE 0)
            /\ ~(Tapped("upgrade_indicator") /\ Tapped("recommended_button"))

\* an upgrade reached through the recommended shortcut whose speed-up was
\* skipped or not found
C15_Witness ==
    /\ call = "BuildingUpgradeTask"
    /\ returned = "true"
    /\ tapped = <<"recommended_button", "upgrade_button">>
    /\ events["buildings_upgraded"] = 1

\* C16: when capturing the screenshot or dispatching the tap fails during a
\* find_and_tap step of a call, the step reports failure and the call of
\* execute() returns false (it never ends otherwise than by returning).
C16_DeviceFailureFailsTask ==
    (io_failed /\ returned # None) => returned = "false"

\* ======================================================================
\*  ImageProcessor (adb_utils.py): find_template, find_all_templates
\* ======================================================================

\* ------------------------------------------------------------- bounds
ScreenWidth == 3    \* the width in pixels of the screenshots drawn

\* --------------------------------------------------- program constants
\* in hundredths: the default of threshold, the default of overlap_threshold
DefaultThreshold  == 80
overlap_threshold == 30

\* the confidences drawn for the cells of a correlation surface and the
\* thresholds drawn for a call, in hundredths
Confidences == {DefaultThreshold - 10, DefaultThreshold + 10}
Thresholds  == {0, DefaultThreshold, 100}

\* the screenshots drawn are landscape, half as high as wide (rounded up)
ScreenHeight == (ScreenWidth + 1) \div 2

\* the template sizes drawn; one more than the screenshot makes
\* cv2.matchTemplate raise
TemplateWidths  == 1..(ScreenWidth + 1)
TemplateHeights == 1..(ScreenHeight + 1)

Max(a, b) == IF a >= b THEN a ELSE b

\* cv2.matchTemplate raises when the template does not fit in the image
MatchingFails(img) == img.w > ScreenWidth \/ img.h > ScreenHeight

\* the positions of the result of cv2.matchTemplate for a w x h template
Cells(w, h) == (0..(ScreenWidth - w)) \X (0..(ScreenHeight - h))

\* the inputs of a call: the template file is missing or unreadable
\* (cv2.imread returns None), or it loads with a size and the matching of
\* the screenshot yields a correlation surface (none when it raises)
Images ==
    [asset : {"missing"}, w : {0}, h : {0}, surface : {<<>>}, threshold : Thresholds,
     called : {{}}]
    \cup UNION { [asset : {"ok"}, w : {tw}, h : {th},
                  surface : IF tw > ScreenWidth \/ th > ScreenHeight
                            THEN {<<>>} ELSE [Cells(tw, th) -> Confidences],
                  threshold : Thresholds, called : {{}}] :
                tw \in TemplateWidths, th \in TemplateHeights }

\* variant of minMaxLoc: any position of the surface is reported
max_locs_Any(surface) == DOMAIN surface

\* cv2.minMaxLoc: the greatest value of the surface and the positions holding it
max_val(surface) ==
    CHOOSE v \in Confidences :
        /\ \E c \in DOMAIN surface : surface[c] = v
        /\ \A c \in DOMAIN surface : surface[c] <= v
max_locs(surface) == {c \in DOMAIN surface : surface[c] = max_val(surface)}

\* find_template past imread and matchTemplate, with max_loc the position
\* minMaxLoc reported
find_template(img, max_loc) ==
    IF max_val(img.surface) >= img.threshold
    THEN <<max_loc[1], max_loc[2], img.w, img.h>>
    ELSE NotFound

\* np.where(result >= threshold) zipped into (x, y, w, h) boxes
boxes(img) ==
    {<<c[1], c[2], img.w, img.h>> : c \in {d \in DOMAIN img.surface :
                                            img.surface[d] >= img.threshold}}

\* ------------------------------------------------ _non_max_suppression
x1(b) == b[1]
y1(b) == b[2]
x2(b) == b[1] + b[3]
y2(b) == b[2] + b[4]
areas(b) == (x2(b) - x1(b) + 1) * (y2(b) - y1(b) + 1)
inter_area(i, b) ==
    Max(0, Min(x2(i), x2(b)) - Max(x1(i), x1(b)) + 1)
  * Max(0, Min(y2(i), y2(b)) - Max(y1(i), y1(b)) + 1)
union_area(i, b) == areas(i) + areas(b) - inter_area(i, b)

\* variant of the filter: every remaining box is kept
Kept_All(i, b) == TRUE

\* overlap <= overlap_threshold, the boxes kept next to the selected box i
Kept(i, b) == 100 * inter_area(i, b) <= overlap_threshold * union_area(i, b)

\* the lists _non_max_suppression can return: the box selected is the last
\* of argsort(y2), any of the remaining boxes with the greatest y2
RECURSIVE NonMaxSuppression(_, _)
NonMaxSuppression(remaining, selected) ==
    IF remaining = {} THEN {selected}
    ELSE UNION { NonMaxSuppression({b \in remaining \ {i} : Kept(i, b)},
                                   Append(selected, i)) :
                 i \in {b \in remaining : \A c \in remaining : y2(c) <= y2(b)} }

\* ---------------------------------------------------------------- calls
\* a screenshot, a template path and a threshold are handed to the processor
Capture ==
    /\ image.asset = "none"
    /\ image' \in Images
    /\ UNCHANGED <<found, regions, image_raised, loopVars, taskVars, utilVars>>

\* variant of find_template without its `except Exception` clause
FindTemplate_NoExcept ==
    /\ image.asset # "none"
    /\ "find_all_templates" \notin image.called
    /\ image' = [image EXCEPT !.called = @ \cup {"find_template"}]
    /\ IF image.asset = "missing"
       THEN found' = NotFound /\ UNCHANGED image_raised
       ELSE IF MatchingFails(image)
       THEN image_raised' = TRUE /\ UNCHANGED found
       ELSE /\ \E max_loc \in max_locs(image.surface) :
                 found' = find_template(image, max_loc)
            /\ UNCHANGED image_raised
    /\ UNCHANGED <<regions, loopVars, taskVars, utilVars>>

\* ImageProcessor.find_template (the methods are static and keep no state:
\* the calls of one method on an input are followed separately from the
\* calls of the other)
FindTemplate ==
    /\ image.asset # "none"
    /\ "find_all_templates" \notin image.called
    /\ image' = [image EXCEPT !.called = @ \cup {"find_template"}]
    /\ IF image.asset = "missing"
       THEN found' = NotFound /\ UNCHANGED image_raised
       ELSE IF MatchingFails(image)
       THEN found' = NotFound /\ UNCHANGED image_raised  \* except Exception
       ELSE /\ \E max_loc \in max_locs(image.surface) :
                 found' = find_template(image, max_loc)
            /\ UNCHANGED image_raised
    /\ UNCHANGED <<regions, loopVars, taskVars, utilVars>>

\* ImageProcessor.find_all_templates
FindAllTemplates ==
    /\ image.asset # "none"
    /\ "find_template" \notin image.called
    /\ image' = [image EXCEPT !.called = @ \cup {"find_all_templates"}]
    /\ IF image.asset = "missing"
       THEN regions' = <<>> /\ UNCHANGED image_raised
       ELSE IF MatchingFails(image)
       THEN regions' = <<>> /\ UNCHANGED image_raised    \* except Exception
       ELSE /\ regions' \in NonMaxSuppression(boxes(image), <<>>)
            /\ UNCHANGED image_raised
    /\ UNCHANGED <<found, loopVars, taskVars, utilVars>>

ImageNext == Capture \/ FindTemplate \/ FindAllTemplates

ImageSpec == Init /\ [][ImageNext]_vars

\* ======================================================================
\*  Claims on the ImageProcessor
\* ======================================================================

\* the template of the call could not be loaded, or the matching raised
PerceptionFailure ==
    image.asset = "missing" \/ (image.asset = "ok" /\ MatchingFails(image))

\* C17: find_template and find_all_templates never raise to the caller: with
\* a missing or unreadable template asset, or an internal matching error,
\* find_template returns None and find_all_templates the empty list, on the
\* first call and on every later call.
C17_PerceptionNeverRaises ==
    /\ ~image_raised
    /\ PerceptionFailure => (found = NotFound /\ regions = <<>>)

\* find_template was called with a template whose file is missing
C17_Witness ==
    /\ image.asset = "missing"
    /\ "find_template" \in image.called
    /\ found = NotFound
    /\ ~image_raised

\* C18: for every threshold t, find_template returns a region only if the
\* global maximum of the correlation surface is >= t, and the region is
\* located at a position holding that maximum and has the template's width
\* and height; otherwise it returns NotFound.
C18_GlobalMaximum ==
    ("find_template" \in image.called /\ ~PerceptionFailure) =>
        IF found # NotFound
        THEN /\ <<found[1], found[2]>> \in DOMAIN image.surface
             /\ image.surface[<<found[1], found[2]>>] >= image.threshold
             /\ \A c \in DOMAIN image.surface :
                    image.surface[c] <= image.surface[<<found[1], found[2]>>]
             /\ found[3] = image.w
             /\ found[4] = image.h
        ELSE \A c \in DOMAIN image.surface : image.surface[c] < image.threshold

\* a region was returned although another position is above the threshold too
\* with a lower confidence
C18_Witness ==
    /\ "find_template" \in image.called
    /\ ~PerceptionFailure
    /\ found # NotFound
    /\ \E c \in DOMAIN image.surface :
          /\ image.surface[c] >= image.threshold
          /\ image.surface[c] < image.surface[<<found[1], found[2]>>]

\* intersection over union of two regions (x, y, w, h) greater than
\* overlap_threshold
IoUExceeds(a, b) ==
    LET iw == Max(0, Min(a[1] + a[3], b[1] + b[3]) - Max(a[1], b[1]))
        ih == Max(0, Min(a[2] + a[4], b[2] + b[4]) - Max(a[2], b[2]))
        i  == iw * ih
        u  == a[3] * a[4] + b[3] * b[4] - i
    IN  100 * i > overlap_threshold * u

\* C19: no two regions returned by find_all_templates have an intersection
\* over union greater than the overlap threshold 0.3, whatever the candidate
\* boxes above the threshold were.
C19_NoOverlappingRegions ==
    "find_all_templates" \in image.called =>
        \A i, j \in 1..Len(regions) :
            i < j => ~IoUExceeds(regions[i], regions[j])

\* two regions were returned from candidates of which two overlapped by more
\* than the threshold
C19_Witness ==
    /\ "find_all_templates" \in image.called
    /\ ~PerceptionFailure
    /\ Len(regions) >= 2
    /\ \E a, b \in boxes(image) : a # b /\ IoUExceeds(a, b)

\* C20: when the candidate boxes above the threshold are pairwise
\* non-overlapping (intersection over union <= 0.3 for every pair),
\* find_all_templates returns every one of them exactly once and nothing
\* else.
C20_DisjointCandidatesAllReturned ==
    ( /\ "find_all_templates" \in image.called
      /\ ~PerceptionFailure
      /\ \A a, b \in boxes(image) : a # b => ~IoUExceeds(a, b) )
    => /\ Len(regions) = Cardinality(boxes(image))
       /\ {regions[i] : i \in 1..Len(regions)} = boxes(image)

\* ======================================================================
\*  Claims on the session randomizer and the cycle of the control loop
\* ======================================================================

\* seconds since SessionRandomizer.session_start
SessionElapsed == (now - session_start) * TickSeconds

\* C25: the session duration is drawn once, between 30 and 120 minutes;
\* should_end_session() returns true whenever the elapsed session time is at
\* least that duration and false whenever it is at most the 20-minute floor.
C25_SessionEndDecision ==
    /\ [](session_duration >= SessionDurationMin /\ session_duration <= SessionDurationMax)
    /\ [][ /\ session_duration' = session_duration
           /\ \A t \in Threads :
                (pc[t] = "session_check" /\ pc'[t] \in {"session_sleep", "get_tasks"}) =>
                    /\ SessionElapsed >= session_duration => pc'[t] = "session_sleep"
                    /\ SessionElapsed <= min_session_duration => pc'[t] = "get_tasks" ]_vars

\* should_end_session() has returned true at the end of the session duration
C25_Witness ==
    \E t \in Threads :
        /\ pc[t] = "session_sleep"
        /\ session_end[t]
        /\ SessionElapsed >= session_duration
        /\ SessionElapsed > min_session_duration

\* the task types of a task list, and the lists that hold no type twice
Types(list) == {list[i] : i \in 1..Len(list)}
NoRepeat(list) == \A i, j \in 1..Len(list) : i # j => list[i] # list[j]
IsSuffix(s, list) == \E n \in 0..Len(list) : s = SubSeq(list, n + 1, Len(list))

\* C27: the task list a cycle computes holds only task types whose enabled
\* flag is true at that moment (so a type disabled by set_task_enabled before
\* the cycle starts is not in it), each once; within the cycle the list is
\* only consumed from the front, the task dispatched is the head of the list,
\* and the head is removed when the loop comes back from it, so that every
\* type is dispatched at most once per cycle.
C27_OnlyEnabledDispatched ==
    [][\A t \in Threads :
          /\ (pc[t] = "get_tasks" /\ pc'[t] = "for") =>
                /\ \A k \in Types(tasks'[t]) : enabled_tasks[k]
                /\ NoRepeat(tasks'[t])
          /\ pc[t] # "get_tasks" => IsSuffix(tasks'[t], tasks[t])
          /\ (pc[t] = "execute_task" /\ pc'[t] = "create") =>
                /\ tasks[t] # <<>>
                /\ current_task' = Head(tasks[t])
                /\ tasks'[t] = tasks[t]
          /\ (pc[t] \in {"break_check", "break_sleep"} /\ pc'[t] = "for") =>
                tasks'[t] = Tail(tasks[t]) ]_vars

C27_Witness ==
    \E t \in Threads :
        /\ pc[t] = "create"
        /\ current_task = "explore_fog"
        /\ tasks[t] = <<"explore_fog">>
        /\ ~enabled_tasks["gather_resources"]

\* C29: in every state that update_status can read while the bot is running,
\* the action counters agree: total_actions = successful_actions +
\* failed_actions.
C29_CountersConsistent ==
    running => total_actions = successful_actions + failed_actions

\* C30: the statistics are flushed by stop() only when no task execution is
\* in progress, and once they are flushed and the bot is stopped no action
\* counter changes any more.
C30_FlushWhenStopped ==
    [][ /\ stats_file' # stats_file => \A t \in Threads : pc[t] \notin ExecPcs
        /\ (~running /\ ~running' /\ stats_file # -1) =>
              UNCHANGED <<total_actions, successful_actions, failed_actions>> ]_vars

\* ------------------------------------------------------------------------
\* SessionRandomizer.randomize_task_order called on a list of the caller
\* ------------------------------------------------------------------------
\* the lists handed to randomize_task_order
TaskLists == UNION {[1..n -> TaskTypes] : n \in 0..MaxTasks}

\* the caller builds a list and calls randomize_task_order(tasks)
CallRandomize ==
    /\ shuffle_pc \in {"idle", "returned"}
    /\ shuffle_tasks' \in TaskLists
    /\ tasks_copy' = <<>>
    /\ shuffle_pc' = "called"
    /\ UNCHANGED <<loopVars, taskVars, imageVars, humanVars, mapperVars, cycleVars, tapVars, guiVars>>

\* tasks_copy = tasks.copy(); random.shuffle(tasks_copy); return tasks_copy
RandomizeTaskOrder ==
    /\ shuffle_pc = "called"
    /\ tasks_copy' \in randomize_task_order(shuffle_tasks)
    /\ shuffle_pc' = "returned"
    /\ UNCHANGED <<shuffle_tasks, loopVars, taskVars, imageVars, humanVars, mapperVars, cycleVars, tapVars, guiVars>>

RandNext == CallRandomize \/ RandomizeTaskOrder

RandSpec == Init /\ [][RandNext]_vars

\* C26: the list randomize_task_order returns has the length of its input and
\* holds every task type as many times as the input does, and the caller's
\* list is the same after the call as before it.
C26_Permutation ==
    [][(shuffle_pc = "called" /\ shuffle_pc' = "returned") =>
          /\ Len(tasks_copy') = Len(shuffle_tasks)
          /\ \A k \in TaskTypes : Count(tasks_copy', k) = Count(shuffle_tasks, k)
          /\ shuffle_tasks' = shuffle_tasks ]_vars

C26_Witness ==
    /\ shuffle_pc = "returned"
    /\ Len(shuffle_tasks) >= 3
    /\ Count(shuffle_tasks, "explore_fog") = 2
    /\ tasks_copy # shuffle_tasks

\* ------------------------------------------------------------------------
\* HumanBehavior: delays, fatigue and breaks
\* ------------------------------------------------------------------------
\* one tick of the HumanBehavior clock, in seconds
HumanTick == FatigueSeconds \div 2

humanKept == <<loopVars, taskVars, imageVars, randVars, mapperVars, cycleVars, tapVars, guiVars>>

\* time.time() at the end of a call that began at human_now: a call may or
\* may not carry the clock over a tick boundary
HumanElapse == {Min(MaxHumanClock, human_now + c) : c \in {0, 1}}

\* the base delays and variances of the callers, in milliseconds and thousandths
BaseDelays == {0, 500, 1000, 10000}
Variances  == {0, 300}

\* np.random.normal(base_delay, base_delay * variance), in milliseconds: the
\* mean itself when the deviation is zero, any number otherwise
DelaySamples == {-2000, 0, 299, 300, 900, 1500, 1501, 20000}
normal(base_delay, variance) ==
    IF base_delay * variance = 0 THEN {base_delay} ELSE DelaySamples

\* variant: the fatigue is added before the delay is bounded from below only
human_delay_NoCeiling(sample) ==
    Max(min_action_delay, sample) + fatigue_factor \div 2

\* HumanBehavior.human_delay for one draw of the Gaussian
human_delay(sample) ==
    Max(min_action_delay, Min(max_action_delay, sample)) + fatigue_factor \div 2

\* variant: the scheduled break needs the random draw as well
should_take_break_DrawOnly(lucky) ==
    action_count > SpontaneousBreakFloor /\ lucky

\* HumanBehavior.should_take_break, lucky: random.random() < break_probability
should_take_break(lucky) ==
    \/ action_count >= actions_before_break
    \/ action_count > SpontaneousBreakFloor /\ lucky

\* variant: the fatigue follows the time since the last call, not the session
Fatigue_SinceLastCall(t) ==
    Min(MaxFatigue, ((t - human_now) * HumanTick * 1000) \div FatigueSeconds)

\* min(2.0, session_duration / 3600) at time t, session_start being 0
Fatigue(t) == Min(MaxFatigue, (t * HumanTick * 1000) \div FatigueSeconds)

\* HumanBehavior()
HumanBehaviorInit ==
    /\ human_op = "none"
    /\ action_count' = 0
    /\ actions_before_break' \in ActionsBeforeBreak
    /\ fatigue_factor' = 0
    /\ human_op' = "__init__"
    /\ UNCHANGED <<human_now, break_due, delay, since_break, humanKept>>

\* HumanBehavior.human_delay(base_delay, variance)
HumanDelay ==
    /\ human_op # "none"
    /\ \E base_delay \in BaseDelays, variance \in Variances :
          \E sample \in normal(base_delay, variance) : delay' = human_delay(sample)
    /\ human_op' = "human_delay"
    /\ break_due' = FALSE
    /\ UNCHANGED <<action_count, actions_before_break, fatigue_factor, human_now,
                   since_break, humanKept>>

\* HumanBehavior.wait_human(base_delay, variance): the sleep of human_delay
\* seconds, the count and the fatigue
HumanWait ==
    /\ human_op # "none"
    /\ action_count < MaxActionCount
    /\ action_count' = action_count + 1
    /\ \E t \in HumanElapse :
          /\ human_now' = t
          /\ fatigue_factor' = Fatigue(t)
    /\ since_break' = IF since_break = -1 THEN -1 ELSE since_break + 1
    /\ human_op' = "wait_human"
    /\ break_due' = FALSE
    /\ delay' = 0
    /\ UNCHANGED <<actions_before_break, humanKept>>

\* HumanBehavior.should_take_break()
ShouldTakeBreak ==
    /\ human_op # "none"
    /\ \E lucky \in BOOLEAN : break_due' = should_take_break(lucky)
    /\ human_op' = "should_take_break"
    /\ delay' = 0
    /\ UNCHANGED <<action_count, actions_before_break, fatigue_factor, human_now,
                   since_break, humanKept>>

\* variant: the break leaves the action count as it is
HumanTakeBreak_KeepCount ==
    /\ human_op # "none"
    /\ human_now' \in HumanElapse
    /\ actions_before_break' \in ActionsBeforeBreak
    /\ fatigue_factor' = 0
    /\ since_break' = 0
    /\ human_op' = "take_break"
    /\ break_due' = FALSE
    /\ delay' = 0
    /\ UNCHANGED <<action_count, humanKept>>

\* HumanBehavior.take_break(): the sleep, then the counters reset
HumanTakeBreak ==
    /\ human_op # "none"
    /\ human_now' \in HumanElapse
    /\ action_count' = 0
    /\ actions_before_break' \in ActionsBeforeBreak
    /\ fatigue_factor' = 0
    /\ since_break' = 0
    /\ human_op' = "take_break"
    /\ break_due' = FALSE
    /\ delay' = 0
    /\ UNCHANGED humanKept

HumanNext ==
    \/ HumanBehaviorInit \/ HumanDelay \/ HumanWait \/ ShouldTakeBreak \/ HumanTakeBreak

HumanSpec == Init /\ [][HumanNext]_vars

\* C21: should_take_break() returns true whenever action_count has reached
\* actions_before_break, whatever the random draw, and false whenever
\* action_count is at most 30, the threshold being at least 50; the call
\* changes neither the action count, nor the threshold, nor the fatigue.
C21_ScheduledBreak ==
    /\ [](actions_before_break >= 50)
    /\ [](human_op = "should_take_break" =>
             /\ action_count >= actions_before_break => break_due
             /\ action_count <= 30 => ~break_due)
    /\ [][human_op' = "should_take_break" =>
             UNCHANGED <<action_count, actions_before_break, fatigue_factor>>]_vars

C21_Witness ==
    /\ human_op = "should_take_break"
    /\ action_count >= actions_before_break
    /\ break_due

\* C22: take_break() leaves action_count at 0, fatigue_factor at 0 and
\* actions_before_break at an integer of 50..100, and after it
\* should_take_break() returns true only once more than 30 further
\* wait_human calls were counted.
C22_BreakResets ==
    /\ [][human_op' = "take_break" =>
             /\ action_count' = 0
             /\ fatigue_factor' = 0
             /\ actions_before_break' \in 50..100]_vars
    /\ []((since_break # -1 /\ human_op = "should_take_break" /\ break_due) =>
             since_break > 30)

C22_Witness ==
    /\ human_op = "should_take_break"
    /\ break_due
    /\ since_break > 30
    /\ action_count < actions_before_break

\* C23: fatigue_factor stays within 0..2 (in thousandths); no call other than
\* take_break lowers it, so it never decreases from one wait_human to the
\* next between two breaks; every wait_human adds exactly one to action_count.
C23_FatigueMonotone ==
    /\ [](fatigue_factor >= 0 /\ fatigue_factor <= 2000)
    /\ [][human_op' # "take_break" => fatigue_factor' >= fatigue_factor]_vars
    /\ [][human_op' = "wait_human" => action_count' = action_count + 1]_vars

C23_Witness ==
    /\ human_op = "wait_human"
    /\ since_break > 1
    /\ fatigue_factor = 2000
    /\ human_now * HumanTick > 2 * FatigueSeconds

\* C24: human_delay returns a value of 0.3 s to 2.5 s for every base delay,
\* variance and fatigue the HumanBehavior can have.
C24_DelayRange ==
    human_op = "human_delay" => (delay >= 300 /\ delay <= 2500)

C24_Witness ==
    /\ human_op = "human_delay"
    /\ delay = 2500
    /\ fatigue_factor = 2000

\* ------------------------------------------------------------------------
\* CoordinateMapper: scaling between the base and the current resolution
\* ------------------------------------------------------------------------
mapperKept == <<loopVars, taskVars, imageVars, randVars, humanVars, cycleVars, tapVars, guiVars>>

\* the coordinates and the sizes handed to the scaling calls
Coordinates == 0..MaxCoordinate
Sizes == {base_height, base_width}

\* the resolutions handed to set_current_resolution
Widths  == {base_width \div 2, (base_width * 2) \div 3, base_width}
Heights == {base_height \div 2, (base_height * 2) \div 3, base_height}

\* int(round(n / d)) for d > 0: Python rounds a tie to the even neighbour
Round(n, d) ==
    LET q == n \div d
        r == n % d
    IN  IF 2 * r < d THEN q
        ELSE IF 2 * r > d THEN q + 1
        ELSE IF q % 2 = 0 THEN q ELSE q + 1

\* int(round(x * sx)), sx = current_width / base_width
ScaleX(x) == Round(x * current_width, base_width)
\* int(round(y * sy)), sy = current_height / base_height
ScaleY(y) == Round(y * current_height, base_height)

\* variant: width and height are stored crossed
SetCurrentResolution_Crossed ==
    \E width \in Widths, height \in Heights :
        /\ current_width' = height
        /\ current_height' = width
        /\ requested' = <<width, height>>
        /\ mapper_op' = "set_current_resolution"
        /\ UNCHANGED <<args, scaled, mapperKept>>

\* CoordinateMapper.set_current_resolution(width, height)
SetCurrentResolution ==
    \E width \in Widths, height \in Heights :
        /\ current_width' = width
        /\ current_height' = height
        /\ requested' = <<width, height>>
        /\ mapper_op' = "set_current_resolution"
        /\ UNCHANGED <<args, scaled, mapperKept>>

\* CoordinateMapper.scale_coordinates(x, y)
ScaleCoordinates ==
    \E x, y \in Coordinates :
        /\ args' = <<x, y>>
        /\ scaled' = <<ScaleX(x), ScaleY(y)>>
        /\ mapper_op' = "scale_coordinates"
        /\ UNCHANGED <<current_width, current_height, requested, mapperKept>>

\* CoordinateMapper.scale_region(x, y, width, height)
ScaleRegion ==
    \E x, y \in Coordinates, width, height \in Sizes :
        /\ args' = <<x, y, width, height>>
        /\ scaled' = <<ScaleX(x), ScaleY(y), ScaleX(width), ScaleY(height)>>
        /\ mapper_op' = "scale_region"
        /\ UNCHANGED <<current_width, current_height, requested, mapperKept>>

MapperNext == SetCurrentResolution \/ ScaleCoordinates \/ ScaleRegion

MapperSpec == Init /\ [][MapperNext]_vars

\* the value x scaled by the factor w / base: the nearest integer, the even
\* one of the two when x * w / base lies halfway between them
Scaled(x, w, base) ==
    CHOOSE k \in {(x * w) \div base, (x * w) \div base + 1} :
        /\ 2 * base * k - base <= 2 * x * w
        /\ 2 * x * w <= 2 * base * k + base
        /\ (2 * x * w = 2 * base * k - base \/ 2 * x * w = 2 * base * k + base) => k % 2 = 0

\* C28: with the current resolution equal to the base resolution 1920 x 1080
\* scale_coordinates and scale_region return their arguments unchanged; a
\* scaling call made after set_current_resolution(w, h) scales widths by
\* w / 1920 and heights by h / 1080; set_current_resolution leaves the value
\* an earlier call returned as it was.
C28_ScalingFollowsResolution ==
    /\ []((mapper_op \in {"scale_coordinates", "scale_region"} /\ requested = <<1920, 1080>>) =>
             scaled = args)
    /\ [][mapper_op' \in {"scale_coordinates", "scale_region"} =>
             /\ Len(scaled') = Len(args')
             /\ \A i \in 1..Len(args') :
                   scaled'[i] = IF i % 2 = 1 THEN Scaled(args'[i], requested[1], 1920)
                                             ELSE Scaled(args'[i], requested[2], 1080)]_vars
    /\ [][mapper_op' = "set_current_resolution" => scaled' = scaled]_vars

C28_Witness ==
    /\ mapper_op = "scale_region"
    /\ requested = <<960, 540>>
    /\ args = <<1, 3, 1920, 1080>>
    /\ scaled = <<0, 2, 960, 540>>

\* ------------------------------------------------------------------------
\* Further claims on the control loop
\* ------------------------------------------------------------------------
\* C31: a cycle that finds no enabled task has an empty task list, and from
\* the for-loop over an empty list the thread goes on to the inter-cycle
\* delay of 60 to 180 seconds and to nothing else: no task execution, no
\* wait between tasks and no break check (an exception excepted, which takes
\* it to the handler of the loop).
C31_EmptyCycleStillSleeps ==
    [][\A t \in Threads :
          /\ (pc[t] = "get_tasks" /\ pc'[t] = "for" /\ \A k \in TaskTypes : ~enabled_tasks[k]) =>
                tasks'[t] = <<>>
          /\ (pc[t] = "for" /\ tasks[t] = <<>> /\ pc'[t] # "for") =>
                /\ pc'[t] \in {"cycle_sleep", "except"}
                /\ pc'[t] = "cycle_sleep" =>
                      /\ sleep_s'[t] >= 60 /\ sleep_s'[t] <= 180
                      /\ UNCHANGED <<total_actions, current_task>> ]_vars

C31_Witness ==
    \E t \in Threads :
        /\ pc[t] = "cycle_sleep"
        /\ running /\ ~paused
        /\ \A k \in TaskTypes : ~enabled_tasks[k]
        /\ total_actions = 0
        /\ errors = 0
        /\ sleep_s[t] = 180

\* C40: current_task is set only while a task execution is in progress: the
\* step on which _execute_task returns, after a task that succeeded, failed,
\* could not be constructed or raised, leaves current_task at None, and
\* current_task is None whenever no thread is inside _execute_task.
C40_CurrentTaskCleared ==
    /\ [](current_task # None => \E t \in Threads : pc[t] \in ExecPcs)
    /\ [][\A t \in Threads :
             (pc[t] \in ExecPcs /\ pc'[t] \notin ExecPcs) => current_task' = None]_vars

C40_Witness ==
    \E t \in Threads :
        /\ pc[t] = "wait_human"
        /\ outcome[t] = "raised"
        /\ current_task = None
        /\ errors > 0

\* ------------------------------------------------------------------------
\* The for-loop of the cycle and the HumanBehavior it shares with the tasks
\* ------------------------------------------------------------------------
cycleKept == <<loopVars, taskVars, imageVars, randVars, mapperVars, tapVars, guiVars>>

\* self.humanizer = HumanBehavior() in BotCore.__init__
CycleHumanizer ==
    /\ human_op = "none"
    /\ action_count' = 0
    /\ actions_before_break' \in ActionsBeforeBreak
    /\ fatigue_factor' = 0
    /\ human_op' = "__init__"
    /\ UNCHANGED <<human_now, break_due, delay, since_break, cycle_pc, cycleKept>>

\* start_bot: the execution thread enters the loop
CycleStart(t) ==
    /\ human_op # "none"
    /\ \A u \in Threads : cycle_pc[u] = "idle"
    /\ t = ThreadOrder[1]
    /\ cycle_pc' = [cycle_pc EXCEPT ![t] = "for"]
    /\ UNCHANGED <<humanVars, cycleKept>>

\* stop_bot then start_bot while the execution thread is still in the loop:
\* a second thread enters it
CycleRestart(t) ==
    /\ cycle_pc[t] = "idle"
    /\ \E u \in Threads : cycle_pc[u] # "idle"
    /\ cycle_pc' = [cycle_pc EXCEPT ![t] = "for"]
    /\ UNCHANGED <<humanVars, cycleKept>>

\* the effect of one wait_human on the HumanBehavior
CountedWait ==
    /\ action_count < MaxActionCount
    /\ action_count' = action_count + 1
    /\ \E now_s \in HumanElapse :
          /\ human_now' = now_s
          /\ fatigue_factor' = Fatigue(now_s)
    /\ since_break' = IF since_break = -1 THEN -1 ELSE since_break + 1
    /\ human_op' = "wait_human"
    /\ break_due' = FALSE
    /\ delay' = 0
    /\ UNCHANGED actions_before_break

\* the effect of one take_break on the HumanBehavior
CountedBreak ==
    /\ human_now' \in HumanElapse
    /\ action_count' = 0
    /\ actions_before_break' \in ActionsBeforeBreak
    /\ fatigue_factor' = 0
    /\ since_break' = 0
    /\ human_op' = "take_break"
    /\ break_due' = FALSE
    /\ delay' = 0

\* for task_type in tasks: self._execute_task(task_type) begins, or the task
\* is skipped
CycleFor(t) ==
    /\ cycle_pc[t] = "for"
    /\ \E skip \in BOOLEAN :
          cycle_pc' = [cycle_pc EXCEPT ![t] = IF skip THEN "for" ELSE "task"]
    /\ UNCHANGED <<humanVars, cycleKept>>

\* inside the task: one of its self.humanizer.wait_human(..) calls
CycleTaskWait(t) ==
    /\ cycle_pc[t] = "task"
    /\ CountedWait
    /\ UNCHANGED <<cycle_pc, cycleKept>>

\* inside BarbarianAttackTask: if should_take_break(): take_break()
CycleTaskBreak(t) ==
    /\ cycle_pc[t] = "task"
    /\ \E lucky \in BOOLEAN : should_take_break(lucky)
    /\ CountedBreak
    /\ UNCHANGED <<cycle_pc, cycleKept>>

\* _execute_task returns
CycleTaskEnd(t) ==
    /\ cycle_pc[t] = "task"
    /\ cycle_pc' = [cycle_pc EXCEPT ![t] = "wait_human"]
    /\ UNCHANGED <<humanVars, cycleKept>>

\* self.humanizer.wait_human(random.uniform(5, 15))
CycleWait(t) ==
    /\ cycle_pc[t] = "wait_human"
    /\ CountedWait
    /\ cycle_pc' = [cycle_pc EXCEPT ![t] = "break_check"]
    /\ UNCHANGED cycleKept

\* if self.humanizer.should_take_break():
CycleBreakCheck(t) ==
    /\ cycle_pc[t] = "break_check"
    /\ \E lucky \in BOOLEAN :
          cycle_pc' = [cycle_pc EXCEPT ![t] =
                          IF should_take_break(lucky) THEN "take_break" ELSE "for"]
    /\ UNCHANGED <<humanVars, cycleKept>>

\* self.humanizer.take_break()
CycleTakeBreak(t) ==
    /\ cycle_pc[t] = "take_break"
    /\ CountedBreak
    /\ cycle_pc' = [cycle_pc EXCEPT ![t] = "for"]
    /\ UNCHANGED cycleKept

CycleStep(t) ==
    \/ CycleFor(t) \/ CycleTaskWait(t) \/ CycleTaskBreak(t) \/ CycleTaskEnd(t)
    \/ CycleWait(t) \/ CycleBreakCheck(t) \/ CycleTakeBreak(t)

\* one execution thread
CycleNext == CycleHumanizer \/ \E t \in Threads : CycleStart(t) \/ CycleStep(t)

CycleSpec == Init /\ [][CycleNext]_vars

\* with the second thread that stop_bot followed by start_bot lets in
CycleNext2 == CycleNext \/ \E t \in Threads : CycleRestart(t)

CycleSpec2 == Init /\ [][CycleNext2]_vars

\* C39: whenever a thread of the control loop begins executing a task, the
\* action_count of the humanizer is strictly below actions_before_break.
C39_BelowThresholdAtTaskStart ==
    [][\A t \in Threads :
          (cycle_pc[t] = "for" /\ cycle_pc'[t] = "task") =>
              action_count < actions_before_break]_vars

\* ------------------------------------------------------------------------
\* Further claims on the HumanBehavior
\* ------------------------------------------------------------------------
\* C32: a break resets the fatigue: right after take_break() fatigue_factor
\* is 0, and the wait_human that follows sets it from the time elapsed since
\* that break, not from the time elapsed since the HumanBehavior was created.
C32_BreakResetsFatigue ==
    /\ [](human_op = "take_break" => fatigue_factor = 0)
    /\ [][(human_op = "take_break" /\ human_op' = "wait_human") =>
             fatigue_factor' =
                 Min(MaxFatigue, ((human_now' - human_now) * HumanTick * 1000) \div FatigueSeconds)]_vars

\* ------------------------------------------------------------------------
\* Further claims on the tasks
\* ------------------------------------------------------------------------
\* C33: in BarbarianAttackTask.execute() the break check follows every
\* attack attempt, successful or failed: at the head of the loop and after
\* the return as many break checks were made as attempts.
C33_BreakCheckAfterEachAttempt ==
    (call = "BarbarianAttackTask" /\ step \in {"for", "done"}) => break_checks = attempts

\* C38: NewPlayerTutorialTask.execute() terminates whatever the perception
\* reports: its loop makes at most max_steps (50) passes, even when a
\* tutorial prompt is found on every check.
C38_TutorialBounded ==
    call = "NewPlayerTutorialTask" => attempts <= max_steps

\* C36: for every member of the TaskType enumeration _create_task_instance
\* returns a task (never None), so that a dispatched task type is executed.
C36_EveryTypeConstructed ==
    task_type # None => task_instance # None

\* ---------------------------------------------------------------------------
\* BaseTask.find_and_tap, step by step
\* ---------------------------------------------------------------------------
max_radius == 5     \* random_offset(x, y, max_radius=5)

tapKept == <<loopVars, taskVars, imageVars, randVars, humanVars, mapperVars, cycleVars, guiVars>>

\* the regions find_template may return: the place of the best match (a
\* corner of the coordinates drawn) and the size of the template, of odd and
\* of even width and height
MatchRegions ==
    {<<x, y, width, height>> : x \in {0, MaxCoordinate}, y \in {0, MaxCoordinate},
                               width \in {MaxCoordinate, MaxCoordinate + 1},
                               height \in {MaxCoordinate, MaxCoordinate + 1}}

\* a wider scatter than random_offset has
random_offset_Wide(x, y, radius) ==
    {<<x + dx, y + dy>> : dx \in (-radius - 1)..(radius + 1), dy \in (-radius - 1)..(radius + 1)}

\* HumanBehavior.random_offset: the pairs it may return,
\* (x + random.randint(-max_radius, max_radius), y + random.randint(-max_radius, max_radius))
random_offset(x, y, radius) ==
    {<<x + dx, y + dy>> : dx \in (-radius)..radius, dy \in (-radius)..radius}

\* a task step calls find_and_tap(template)
FindAndTapCall ==
    /\ tap_pc = "idle"
    /\ taps < MaxTaps /\ captures < MaxCaptures
    /\ tap_pc' = "get_screenshot"
    /\ UNCHANGED <<captures, screenshot, result, taps, tap_x, tap_y, tap_shot, captures_at_tap, tapKept>>

\* a get_screenshot that hands out the last capture again when there is one
GetScreenshot_Cached ==
    /\ tap_pc = "get_screenshot"
    /\ captures' = Max(captures, 1)
    /\ screenshot' = captures'
    /\ tap_pc' = "find_template"
    /\ UNCHANGED <<result, taps, tap_x, tap_y, tap_shot, captures_at_tap, tapKept>>

\* screenshot = self.adb.get_screenshot(); if not screenshot: return False
GetScreenshot ==
    /\ tap_pc = "get_screenshot"
    /\ \/ /\ captures' = captures + 1           \* device.screencap() delivers a new image
          /\ screenshot' = captures'
          /\ tap_pc' = "find_template"
       \/ /\ tap_pc' = "idle"                   \* get_screenshot returned None
          /\ UNCHANGED <<captures, screenshot>>
    /\ UNCHANGED <<result, taps, tap_x, tap_y, tap_shot, captures_at_tap, tapKept>>

\* result = self.image_processor.find_template(screenshot, template, threshold);
\* without a result, and when find_template raises, the call ends and its
\* locals are gone
TapFindTemplate ==
    /\ tap_pc = "find_template"
    /\ \/ /\ result' \in MatchRegions
          /\ tap_pc' = "tap"
          /\ UNCHANGED screenshot
       \/ /\ result' = <<>>
          /\ screenshot' = 0
          /\ tap_pc' = "idle"
    /\ UNCHANGED <<captures, taps, tap_x, tap_y, tap_shot, captures_at_tap, tapKept>>

\* x, y, width, height = result
\* tap_x, tap_y = self.humanizer.random_offset(x + width // 2, y + height // 2)
\* self.adb.tap(tap_x, tap_y)
Tap ==
    /\ tap_pc = "tap"
    /\ \E xy \in random_offset(result[1] + result[3] \div 2, result[2] + result[4] \div 2, max_radius) :
        /\ tap_x' = xy[1]
        /\ tap_y' = xy[2]
    /\ taps' = taps + 1
    /\ tap_shot' = screenshot
    /\ captures_at_tap' = captures
    /\ tap_pc' = "wait_human"
    /\ UNCHANGED <<captures, screenshot, result, tapKept>>

\* self.humanizer.wait_human(0.5); return True: the locals are gone
TapReturn ==
    /\ tap_pc = "wait_human"
    /\ tap_pc' = "idle"
    /\ screenshot' = 0
    /\ result' = <<>>
    /\ UNCHANGED <<captures, taps, tap_x, tap_y, tap_shot, captures_at_tap, tapKept>>

TapNext ==
    \/ FindAndTapCall
    \/ GetScreenshot
    \/ TapFindTemplate
    \/ Tap
    \/ TapReturn

TapSpec == Init /\ [][TapNext]_vars

\* C34: every tap is computed from a screenshot captured after the previous
\* tap: each find_and_tap captures a screenshot of its own, the tap it sends
\* is computed from that one, and no screenshot or match region is kept from
\* one find_and_tap to the next.
C34_FreshScreenshotPerTap ==
    /\ [](tap_pc \in {"idle", "get_screenshot"} => screenshot = 0 /\ result = <<>>)
    /\ [][(tap_pc = "get_screenshot" /\ tap_pc' = "find_template") =>
             (captures' = captures + 1 /\ screenshot' = captures')]_vars
    /\ [][taps' # taps =>
             (tap_shot' = screenshot /\ tap_shot' = captures /\ tap_shot' > captures_at_tap)]_vars

\* a second tap has been sent, from the third capture
C34_Witness ==
    tap_pc = "wait_human" /\ taps = 2 /\ tap_shot = 3 /\ captures_at_tap = 3

\* C35: every tap sent lies within max_radius (5) per axis of the centre
\* (x + width // 2, y + height // 2) of the matched region, and the region
\* find_template returned is left as it was.
C35_TapJittered ==
    [][taps' # taps =>
          /\ result # <<>> /\ result' = result
          /\ tap_x' - (result[1] + result[3] \div 2) \in (-max_radius)..max_radius
          /\ tap_y' - (result[2] + result[4] \div 2) \in (-max_radius)..max_radius]_vars

\* a tap at the corner of the scatter, for a region of odd width and even height
C35_Witness ==
    /\ tap_pc = "wait_human" /\ taps = 1
    /\ result = <<MaxCoordinate, 0, MaxCoordinate, MaxCoordinate + 1>>
    /\ tap_x = result[1] + result[3] \div 2 - max_radius
    /\ tap_y = result[2] + result[4] \div 2 + max_radius

\* ---------------------------------------------------------------------------
\* BotGUI: the license check, the connection and the start and stop buttons.
\* The execution thread is followed from BotCore.start to the test of
\* "while self.running"; the body of the cycle is followed in LoopSpec.
\* ---------------------------------------------------------------------------
guiKept == <<current_task, enabled_tasks, statVars, errors, sessionVars, now,
             tasks, outcome, logged, sleep_s, session_end, pauseVars, commands, unseen,
             taskVars, imageVars, randVars, humanVars, mapperVars, cycleVars, tapVars>>

\* on_devices_found: connect_btn is enabled when devices were found
OnDevicesFound ==
    /\ \E devices \in BOOLEAN : connect_btn' = devices
    /\ UNCHANGED <<start_btn, stop_btn, adb_thread, bot_threads, checks, license_ok, licensed,
                   checks_at_start, botVars, pc, stats_file, guiKept>>

\* a connect_device that goes on to connect whatever check_license returned
ConnectDevice_Ungated ==
    /\ connect_btn /\ checks < MaxChecks
    /\ checks' = checks + 1
    /\ \E valid \in BOOLEAN :
        /\ license_ok' = valid
        /\ licensed' = (licensed \/ valid)
    /\ connect_btn' = FALSE
    /\ adb_thread' = "select_device"
    /\ UNCHANGED <<start_btn, stop_btn, bot_threads, checks_at_start,
                   botVars, pc, stats_file, guiKept>>

\* connect_device with a device selected: "if not self.bot.check_license():
\* ... return", then the ADBConnectionThread is started
ConnectDevice ==
    /\ connect_btn /\ checks < MaxChecks
    /\ checks' = checks + 1
    /\ \E valid \in BOOLEAN :
        /\ license_ok' = valid
        /\ licensed' = (licensed \/ valid)
        /\ IF valid
              THEN /\ connect_btn' = FALSE
                   /\ adb_thread' = "select_device"
              ELSE UNCHANGED <<connect_btn, adb_thread>>
    /\ UNCHANGED <<start_btn, stop_btn, bot_threads, checks_at_start,
                   botVars, pc, stats_file, guiKept>>

\* the ADBConnectionThread finishes (connect_btn is enabled again) and
\* on_device_connected enables start_btn when the device was selected
OnDeviceConnected ==
    /\ adb_thread = "select_device"
    /\ adb_thread' = "none"
    /\ connect_btn' = TRUE
    /\ \E success \in BOOLEAN : start_btn' = (start_btn \/ success)
    /\ UNCHANGED <<stop_btn, bot_threads, checks, license_ok, licensed, checks_at_start,
                   botVars, pc, stats_file, guiKept>>

\* start_bot: the buttons change and a BotThread is started
GuiStartBot ==
    /\ start_btn
    /\ bot_threads < Cardinality(Threads)
    /\ start_btn' = FALSE
    /\ stop_btn' = TRUE
    /\ bot_threads' = bot_threads + 1
    /\ UNCHANGED <<connect_btn, adb_thread, checks, license_ok, licensed, checks_at_start,
                   botVars, pc, stats_file, guiKept>>

\* BotThread.run -> BotCore.start, on the first free thread object
BotThreadRun(t) ==
    /\ bot_threads > 0
    /\ pc[t] = "idle"
    /\ \A u \in Threads : pc[u] = "idle" => ThreadIndex(t) <= ThreadIndex(u)
    /\ bot_threads' = bot_threads - 1
    /\ IF ~running
          THEN /\ running' = TRUE
               /\ paused' = FALSE
               /\ pc' = [pc EXCEPT ![t] = "while"]
               /\ checks_at_start' = checks
          ELSE UNCHANGED <<running, paused, pc, checks_at_start>>
    /\ UNCHANGED <<connect_btn, start_btn, stop_btn, adb_thread, checks, license_ok, licensed,
                   stats_file, guiKept>>

\* stop_bot: BotCore.stop (with SessionLogger.close), then the buttons
GuiStopBot ==
    /\ stop_btn
    /\ running' = FALSE
    /\ stats_file' = total_actions
    /\ start_btn' = TRUE
    /\ stop_btn' = FALSE
    /\ UNCHANGED <<connect_btn, adb_thread, bot_threads, checks, license_ok, licensed,
                   checks_at_start, paused, pc, guiKept>>

\* the execution thread finds running false and leaves the loop
GuiLoopExit(t) == ~running /\ While(t)

GuiNext ==
    \/ OnDevicesFound
    \/ ConnectDevice
    \/ OnDeviceConnected
    \/ GuiStartBot
    \/ \E t \in Threads : BotThreadRun(t)
    \/ GuiStopBot
    \/ \E t \in Threads : GuiLoopExit(t)

GuiSpec == Init /\ [][GuiNext]_vars

\* C37: running never becomes true unless check_license() has returned true
\* beforehand, and check_license() is not called again while the loop runs
\* (while running is true or an execution thread is in the loop).
C37_LicenseGate ==
    /\ [][(~running /\ running') => licensed]_vars
    /\ [][checks' # checks => (~running /\ \A t \in Threads : pc[t] = "idle")]_vars

\* C37 as the code has it: running never becomes true unless check_license()
\* has returned true beforehand, and the start of the loop and the loop itself
\* never call check_license(): it is called by connect_device only, which can
\* be used again while the loop runs and then leaves running, paused and the
\* execution threads as they are, whatever the check returns.
C37_LicenseGateAtConnect ==
    /\ [][(~running /\ running') => licensed]_vars
    /\ [][checks' # checks => (connect_btn /\ UNCHANGED <<running, paused, pc>>)]_vars

\* the loop runs, started after a valid check, and a later check made while it
\* ran returned False
C37_Witness ==
    /\ running /\ licensed /\ ~license_ok
    /\ checks > checks_at_start /\ checks_at_start > 0
    /\ \E t \in Threads : pc[t] = "while"

====
